---- MODULE Spec2Model ----
(***************************************************************************)
(* Download-orchestration core of dlpgui (src/src/App.tsx).                *)
(*                                                                         *)
(* The React component keeps the Registry in the state `downloads` and the *)
(* Ledger in the state `history`.  State updaters given as functions are   *)
(* applied in the order they were queued, so `downloads` below is the      *)
(* value after every queued updater; `snap` is the value of `downloads`    *)
(* seen by the last render, which is what closures (addDownload, the       *)
(* migration effect) read.  Percentages are in hundredths of a percent,    *)
(* times in milliseconds.                                                  *)
(***************************************************************************)
EXTENDS Integers, Sequences, FiniteSets, TLC

\* ------------------------------------------------------------- bounds
MaxTasks == 2
MaxQueued == 2
StartTime == 1000
TimeStep == 50
MaxTime == 1200
MaxLogLines == 302
LogStart == 298
HistoryRoom == 1

\* ------------------------------------------------- program constants
MAX_LOG_LINES_PER_DOWNLOAD == 300
PROGRESS_UPDATE_INTERVAL_MS == 150
MIN_PROGRESS_DELTA == 25
FINAL_STAGE_PERCENTAGE == 9900
FULL_PROGRESS == 10000
HISTORY_LIMIT == 100
NoTime == 0

Ids == 1..MaxTasks
TerminalStatus == {"completed", "error", "cancelled"}
ActiveStatus == {"pending", "downloading"}
None == "none"
DEFAULT_SAVE_PATH == "/downloads"
DEFAULT_FORMAT == "bv*[height<=1080]+ba/b[height<=1080]/best"

VARIABLES
  downloads,            \* Registry: sequence of DownloadItem, newest first
  history,              \* Ledger: sequence of DownloadItem, newest first
  snap,                 \* `downloads` as of the last render
  queued,               \* setDownloads calls queued since the last render
  effectDue,            \* the migration effect is pending for the last render
  progressUpdateTimes,  \* progressUpdateTimesRef.current: id -> ms
  now,                  \* Date.now()
  nextId,               \* the next fresh task id
  worker,               \* Execution Interface, per id: "none", "running", or the
                        \* status of its last event once the process has ended
  rejecting,            \* ids whose start_download call is rejecting, not yet caught
  started,              \* id -> number of start_download invocations
  appliedAt,            \* id -> time of the last progress event below 99% that
                        \* changed the Registry (NoTime: none yet)
  last,                 \* the step taken last: operation, task id and inputs
  accepted,             \* id -> the log lines appended to the task's logs, in order
  dispatched,           \* the ids of the start_download invocations, in order
  storage,              \* localStorage['downloadHistory']
  persistDue,           \* the history persistence effect is pending
  batchUrls,            \* the imported URLs (batch mode when non-empty)
  expansion,            \* the running batch or playlist dispatch loop
  failed,               \* the ids whose start_download call was rejected and caught
  inputs,               \* the component's input state: URL field, chosen format,
                        \* subtitle setting, playlist metadata, save path
  invoked,              \* the arguments of the start_download invocations, in order
  statusSeen,           \* the ids a download-status event has been received for
  unscheduled           \* the ids of the scheduled tasks removed before they were due

vars == <<downloads, history, snap, queued, effectDue, progressUpdateTimes, now, nextId,
          worker, rejecting, started, appliedAt, last,
          accepted, dispatched, storage, persistDue, batchUrls, expansion, failed,
          inputs, invoked, statusSeen, unscheduled>>

\* ------------------------------------------------------------ helpers
Abs(x) == IF x < 0 THEN -x ELSE x

IsTerminal(d) == d.status \in TerminalStatus

IdsOf(s) == {s[k].id : k \in DOMAIN s}

Has(s, i) == i \in IdsOf(s)

Item(s, i) == s[CHOOSE k \in DOMAIN s : s[k].id = i]

\* Mutant of Take: the last n elements are kept instead of the first n.
TakeTail(s, n) == IF Len(s) <= n THEN s ELSE SubSeq(s, Len(s) - n + 1, Len(s))

Take(s, n) == IF Len(s) <= n THEN s ELSE SubSeq(s, 1, n)

SetKey(f, i, v) == [j \in DOMAIN f \cup {i} |-> IF j = i THEN v ELSE f[j]]

RemoveKey(f, i) == [j \in DOMAIN f \ {i} |-> f[j]]

NewDownload(id, status, format, subtitles, scheduledFor) ==
  [id |-> id, url |-> "https://a/v", title |-> "v", status |-> status,
   progress |-> 0, speed |-> "0 KB/s", eta |-> "N/A", size |-> "Unknown",
   logs |-> <<>>, isLogsOpen |-> FALSE, downloadPath |-> None,
   completedAt |-> NoTime, format |-> format, subtitles |-> subtitles,
   phase |-> None, scheduledFor |-> scheduledFor]

ProgressPayload(id, percentage, speed, phase) ==
  [id |-> id, percentage |-> percentage, speed |-> speed, eta |-> "10s",
   size |-> "10MiB", phase |-> phase]

NoPayload == ProgressPayload(0, 0, None, None)

\* String.prototype.trim, character by character.
IsSpace(c) == c \in {" ", "\t", "\n", "\r"}

RECURSIVE TrimStart(_)
TrimStart(s) ==
  IF Len(s) > 0 /\ IsSpace(SubSeq(s, 1, 1)) THEN TrimStart(SubSeq(s, 2, Len(s))) ELSE s

RECURSIVE TrimEnd(_)
TrimEnd(s) ==
  IF Len(s) > 0 /\ IsSpace(SubSeq(s, Len(s), Len(s)))
  THEN TrimEnd(SubSeq(s, 1, Len(s) - 1))
  ELSE s

Trim(s) == TrimEnd(TrimStart(s))

\* String.prototype.startsWith
StartsWith(s, prefix) == Len(s) >= Len(prefix) /\ SubSeq(s, 1, Len(prefix)) = prefix

\* text.split('\n')
RECURSIVE SplitLines(_)
SplitLines(text) ==
  LET breaks == {k \in 1..Len(text) : SubSeq(text, k, k) = "\n"}
  IN  IF breaks = {} THEN <<text>>
      ELSE LET k == CHOOSE b \in breaks : \A c \in breaks : b <= c
           IN  <<SubSeq(text, 1, k - 1)>> \o SplitLines(SubSeq(text, k + 1, Len(text)))

\* Mutant of ImportedLines: the lines are filtered without being trimmed.
ImportedLinesUntrimmed(text) ==
  SelectSeq(SplitLines(text), LAMBDA line :
    line # "" /\ (StartsWith(line, "http://") \/ StartsWith(line, "https://")))

\* The URLs handleFileImport takes from the text of a file.
ImportedLines(text) ==
  LET lines == SplitLines(text)
      trimmed == [k \in DOMAIN lines |-> Trim(lines[k])]
  IN  SelectSeq(trimmed, LAMBDA line :
        line # "" /\ (StartsWith(line, "http://") \/ StartsWith(line, "https://")))

\* url.split('/').pop() || fallback
RECURSIVE AfterLastSlash(_, _)
AfterLastSlash(s, k) ==
  IF k = 0 THEN s
  ELSE IF SubSeq(s, k, k) = "/" THEN SubSeq(s, k + 1, Len(s))
  ELSE AfterLastSlash(s, k - 1)

TitleOf(url, fallback) ==
  IF AfterLastSlash(url, Len(url)) = "" THEN fallback ELSE AfterLastSlash(url, Len(url))

\* The task startBatchDownload creates for one URL.
BatchItem(id, url, format, subtitles) ==
  [NewDownload(id, "pending", format, subtitles, NoTime)
     EXCEPT !.url = url, !.title = TitleOf(url, "Video")]

\* Mutant of MarkError: every task of the list is marked, not only task i.
MarkErrorAll(ds, i) == [k \in DOMAIN ds |-> [ds[k] EXCEPT !.status = "error"]]

\* The catch branch of a dispatch: the task is marked error.
MarkError(ds, i) ==
  [k \in DOMAIN ds |-> IF ds[k].id = i THEN [ds[k] EXCEPT !.status = "error"] ELSE ds[k]]

\* The record kept in `last`.
Step(op, id, p, s, ok) == [op |-> op, id |-> id, p |-> p, s |-> s, ok |-> ok]

\* ------------------------------------------------- download-progress
\* Mutant of PassesThrottle: the final-stage bypass is missing.
PassesThrottleNoBypass(times, t, p) ==
  LET lastUpdate == IF p.id \in DOMAIN times THEN times[p.id] ELSE 0
  IN  ~(t - lastUpdate < PROGRESS_UPDATE_INTERVAL_MS)

\* The throttle gate: FALSE where the listener returns early.
PassesThrottle(times, t, p) ==
  LET lastUpdate == IF p.id \in DOMAIN times THEN times[p.id] ELSE 0
      isFinalStage == p.percentage >= FINAL_STAGE_PERCENTAGE
  IN  ~(~isFinalStage /\ t - lastUpdate < PROGRESS_UPDATE_INTERVAL_MS)

\* Mutant of ProgressDiffers: any difference of the percentage counts.
ProgressDiffersAny(item, p) ==
  \/ item.progress # p.percentage
  \/ item.speed # p.speed
  \/ item.eta # p.eta
  \/ item.size # p.size
  \/ item.phase # p.phase
  \/ item.status # "downloading"

ProgressDiffers(item, p) ==
  \/ Abs(item.progress - p.percentage) >= MIN_PROGRESS_DELTA
  \/ item.speed # p.speed
  \/ item.eta # p.eta
  \/ item.size # p.size
  \/ item.phase # p.phase
  \/ item.status # "downloading"

ApplyProgressItem(item, p) ==
  IF ~ProgressDiffers(item, p) THEN item
  ELSE [item EXCEPT !.progress = p.percentage, !.speed = p.speed,
                    !.eta = p.eta, !.size = p.size,
                    !.status = "downloading", !.phase = p.phase]

ApplyProgress(ds, p) ==
  [k \in DOMAIN ds |-> IF ds[k].id # p.id THEN ds[k] ELSE ApplyProgressItem(ds[k], p)]

\* --------------------------------------------------- download-status
\* Mutant of ApplyStatusItem: the log panel is toggled instead of kept.
ApplyStatusItemToggle(item, s) ==
  [item EXCEPT !.status = s,
               !.progress = IF s = "completed" THEN FULL_PROGRESS ELSE item.progress,
               !.isLogsOpen = IF s = "error" THEN TRUE ELSE ~item.isLogsOpen]

\* Mutant of ApplyStatusItem: the progress is kept on completion.
ApplyStatusItemKeepProgress(item, s) ==
  [item EXCEPT !.status = s,
               !.isLogsOpen = IF s = "error" THEN TRUE ELSE item.isLogsOpen]

ApplyStatusItem(item, s) ==
  [item EXCEPT !.status = s,
               !.progress = IF s = "completed" THEN FULL_PROGRESS ELSE item.progress,
               !.isLogsOpen = IF s = "error" THEN TRUE ELSE item.isLogsOpen]

ApplyStatus(ds, i, s) ==
  [k \in DOMAIN ds |-> IF ds[k].id = i THEN ApplyStatusItem(ds[k], s) ELSE ds[k]]

\* ------------------------------------------------------ download-log
\* Mutant of AppendLog: a line equal to the last stored one is appended too.
AppendLogAlways(item, message) ==
  LET nextLogs == Append(item.logs, message)
      n == Len(nextLogs)
  IN  [item EXCEPT !.logs = IF n > MAX_LOG_LINES_PER_DOWNLOAD
                             THEN SubSeq(nextLogs, n - MAX_LOG_LINES_PER_DOWNLOAD + 1, n)
                             ELSE nextLogs]

AppendLog(item, message) ==
  IF Len(item.logs) > 0 /\ item.logs[Len(item.logs)] = message THEN item
  ELSE LET nextLogs == Append(item.logs, message)
           n == Len(nextLogs)
       IN  [item EXCEPT !.logs = IF n > MAX_LOG_LINES_PER_DOWNLOAD
                                  THEN SubSeq(nextLogs, n - MAX_LOG_LINES_PER_DOWNLOAD + 1, n)
                                  ELSE nextLogs]

ApplyLog(ds, i, message) ==
  [k \in DOMAIN ds |-> IF ds[k].id = i THEN AppendLog(ds[k], message) ELSE ds[k]]

\* ---------------------------------------------------- download-title
\* Mutant of ApplyTitle: the id of the event is not compared.
ApplyTitleToAll(ds, i, title) == [k \in DOMAIN ds |-> [ds[k] EXCEPT !.title = title]]

ApplyTitle(ds, i, title) ==
  [k \in DOMAIN ds |-> IF ds[k].id = i THEN [ds[k] EXCEPT !.title = title] ELSE ds[k]]

\* -------------------------------------------------- history migration
\* Mutant of Stamp: the destination directory is not recorded.
StampWithoutPath(d, t, path) ==
  [d EXCEPT !.completedAt = IF d.completedAt # NoTime THEN d.completedAt ELSE t]

Stamp(d, t, path) ==
  [d EXCEPT !.completedAt = IF d.completedAt # NoTime THEN d.completedAt ELSE t,
            !.downloadPath = path]

\* Mutant of MigratedHistory: ids already in the history are not filtered out.
MigratedHistoryNoDedupe(rendered, hist, t, path) ==
  LET completed == SelectSeq(rendered, IsTerminal)
      updatedCompleted == [k \in DOMAIN completed |-> Stamp(completed[k], t, path)]
  IN  IF Len(completed) > 0 THEN Take(updatedCompleted \o hist, HISTORY_LIMIT) ELSE hist

MigratedHistory(rendered, hist, t, path) ==
  LET completed == SelectSeq(rendered, IsTerminal)
      updatedCompleted == [k \in DOMAIN completed |-> Stamp(completed[k], t, path)]
      newItems == SelectSeq(updatedCompleted, LAMBDA d : ~Has(hist, d.id))
  IN  IF Len(completed) > 0 THEN Take(newItems \o hist, HISTORY_LIMIT) ELSE hist

MigratedDownloads(rendered, ds) ==
  IF Len(SelectSeq(rendered, IsTerminal)) > 0
  THEN SelectSeq(ds, LAMBDA d : ~IsTerminal(d))
  ELSE ds

\* ------------------------------------------------ history persistence
\* The fields of a DownloadItem and the value each reads as when it is
\* undefined.
ItemFields ==
  {"id", "url", "title", "status", "progress", "speed", "eta", "size", "logs",
   "isLogsOpen", "downloadPath", "completedAt", "format", "subtitles", "phase",
   "scheduledFor"}

OptionalFields ==
  {"downloadPath", "completedAt", "format", "subtitles", "phase", "scheduledFor"}

Undefined(field) == IF field \in {"completedAt", "scheduledFor"} THEN NoTime ELSE None

\* JSON.stringify of one item: keys whose value is undefined are left out.
EncodeItem(d) ==
  [f \in {g \in ItemFields : g \in OptionalFields => d[g] # Undefined(g)} |-> d[f]]

\* JSON.parse of one item: a key left out reads as undefined.
DecodeItem(e) == [f \in ItemFields |-> IF f \in DOMAIN e THEN e[f] ELSE Undefined(f)]

Encode(hist) == [k \in DOMAIN hist |-> EncodeItem(hist[k])]

Decode(value) == [k \in DOMAIN value |-> DecodeItem(value[k])]

\* localStorage without the 'downloadHistory' key.
NoStorage == [present |-> FALSE, value |-> <<>>]

\* The history loaded on mount.
LoadHistory(stored) == IF stored.present THEN Decode(stored.value) ELSE <<>>

\* No batch or playlist dispatch loop is running.
\* kind: "batch" or "playlist" while the loop runs; urls, ids: what is left
\* to dispatch; wait: the id whose start_download call is awaited; made: the
\* ids created by the loop started last; all: the URLs it was started with.
\* dir, format, subtitles: the save path, format and subtitle setting the
\* handler was called with (the values of its closure).
NoExpansion ==
  [kind |-> None, urls |-> <<>>, ids |-> <<>>, wait |-> 0, made |-> <<>>, all |-> <<>>,
   dir |-> "", format |-> "", subtitles |-> FALSE]

\* ------------------------------------------------------ isPlaylistUrl
\* The first position from k on at which s has a character of cs, or
\* Len(s) + 1 if there is none.
FirstOf(s, cs, k) ==
  LET hits == {j \in k..Len(s) : SubSeq(s, j, j) \in cs}
  IN  IF hits = {} THEN Len(s) + 1 ELSE CHOOSE j \in hits : \A h \in hits : j <= h

\* s.split(c)
RECURSIVE SplitOn(_, _)
SplitOn(s, c) ==
  LET k == FirstOf(s, {c}, 1)
  IN  IF k > Len(s) THEN <<s>>
      ELSE <<SubSeq(s, 1, k - 1)>> \o SplitOn(SubSeq(s, k + 1, Len(s)), c)

Letters ==
  {"a", "b", "c", "d", "e", "f", "g", "h", "i", "j", "k", "l", "m", "n", "o", "p", "q",
   "r", "s", "t", "u", "v", "w", "x", "y", "z"}

SchemeChars == Letters \cup {"0", "1", "2", "3", "4", "5", "6", "7", "8", "9", "+", "-", "."}

SpecialSchemes == {"http", "https", "ftp", "ws", "wss"}

\* The number of slashes s begins with.
RECURSIVE LeadingSlashes(_)
LeadingSlashes(s) ==
  IF StartsWith(s, "/") THEN 1 + LeadingSlashes(SubSeq(s, 2, Len(s))) ELSE 0

NotAUrl == [ok |-> FALSE, pathname |-> "", search |-> ""]

\* new URL(urlString), for strings in lower case without blanks, backslashes,
\* percent escapes, dot segments, credentials or ports: whether the string
\* parses, and the pathname and the query of the result. A string without a
\* scheme does not parse (there is no base), nor does a special scheme
\* without a host.
ParseUrl(urlString) ==
  LET colon == FirstOf(urlString, {":"}, 1)
      scheme == SubSeq(urlString, 1, colon - 1)
      rest == SubSeq(urlString, colon + 1, Len(urlString))
      slashes == LeadingSlashes(rest)
      hasAuthority == IF scheme \in SpecialSchemes THEN TRUE ELSE StartsWith(rest, "//")
      hostStart == IF scheme \in SpecialSchemes THEN slashes + 1
                   ELSE IF hasAuthority THEN 3 ELSE 1
      hostEnd == IF hasAuthority THEN FirstOf(rest, {"/", "?", "#"}, hostStart) ELSE hostStart
      pathEnd == FirstOf(rest, {"?", "#"}, hostEnd)
      queryEnd == FirstOf(rest, {"#"}, pathEnd)
      path == SubSeq(rest, hostEnd, pathEnd - 1)
  IN  IF \/ colon > Len(urlString)
         \/ colon = 1
         \/ SubSeq(urlString, 1, 1) \notin Letters
         \/ \E j \in 1..(colon - 1) : SubSeq(urlString, j, j) \notin SchemeChars
      THEN NotAUrl
      ELSE IF scheme \in SpecialSchemes /\ hostEnd = hostStart
      THEN NotAUrl
      ELSE [ok |-> TRUE,
            pathname |-> IF path = "" /\ scheme \in SpecialSchemes THEN "/" ELSE path,
            search |-> IF pathEnd <= Len(rest) /\ SubSeq(rest, pathEnd, pathEnd) = "?"
                       THEN SubSeq(rest, pathEnd + 1, queryEnd - 1) ELSE ""]

\* urlObj.searchParams.has(name)
HasParam(search, name) ==
  \E k \in DOMAIN SplitOn(search, "&") :
    LET pair == SplitOn(search, "&")[k]
    IN  pair # "" /\ SubSeq(pair, 1, FirstOf(pair, {"="}, 1) - 1) = name

\* Mutant of isPlaylistUrl: any URL with a list parameter is a playlist.
isPlaylistUrlAnyPath(urlString) ==
  LET urlObj == ParseUrl(urlString)
  IN  urlObj.ok /\ HasParam(urlObj.search, "list")

isPlaylistUrl(urlString) ==
  LET urlObj == ParseUrl(urlString)
  IN  IF ~urlObj.ok THEN FALSE
      ELSE urlObj.pathname = "/playlist" /\ HasParam(urlObj.search, "list")

\* ------------------------------------------------- history pagination
ITEMS_PER_PAGE == 5

Min(a, b) == IF a < b THEN a ELSE b

\* Array.prototype.slice(from, to) with 0 <= from <= to, indices from zero.
Slice(seq, from, to) == SubSeq(seq, Min(from, Len(seq)) + 1, Min(to, Len(seq)))

\* Math.ceil(history.length / ITEMS_PER_PAGE)
TotalPages(hist) == (Len(hist) + ITEMS_PER_PAGE - 1) \div ITEMS_PER_PAGE

\* Mutant of Page: the page number is taken as counted from zero.
PageFromZero(hist, historyPage) ==
  Slice(hist, historyPage * ITEMS_PER_PAGE, (historyPage + 1) * ITEMS_PER_PAGE)

\* paginatedHistory
Page(hist, historyPage) ==
  Slice(hist, (historyPage - 1) * ITEMS_PER_PAGE, historyPage * ITEMS_PER_PAGE)

\* ------------------------------------------------------------- inputs
\* playlistInfo: null, or the metadata fetched for a playlist.
NoPlaylist == [loaded |-> FALSE, entries |-> <<>>]

\* The input state once the save path is initialised: nothing entered.
\* fetching: the URL fetch_playlist_info was called with and has not
\* answered for yet.
NoInputs ==
  [url |-> "", selectedFormat |-> "", withSubtitles |-> FALSE, isPlaylist |-> FALSE,
   playlistInfo |-> NoPlaylist, lastFetchedUrl |-> "", formatsError |-> "",
   isFetchingPlaylist |-> FALSE, fetching |-> "", savePath |-> DEFAULT_SAVE_PATH,
   scheduledTime |-> NoTime]

\* The arguments of one start_download invocation.
Invocation(id, url, downloadDir, formatString, subtitles) ==
  [id |-> id, url |-> url, downloadDir |-> downloadDir, formatString |-> formatString,
   subtitles |-> subtitles]

\* The entries of the playlists that are fetched or confirmed.
PlaylistVideos ==
  <<[url |-> "https://a/watch?v=1", title |-> "one"],
    [url |-> "https://a/watch?v=2", title |-> "two"],
    [url |-> "https://a/watch?v=3", title |-> "three"],
    [url |-> "https://a/watch?v=4", title |-> "four"]>>

PlaylistEntries(n) == SubSeq(PlaylistVideos, 1, n)

\* ------------------------------------------------------------ initial
Init ==
  /\ downloads = <<>>
  /\ history = <<>>
  /\ snap = <<>>
  /\ queued = 0
  /\ effectDue = FALSE
  /\ progressUpdateTimes = [i \in {} |-> NoTime]
  /\ now = StartTime
  /\ nextId = 1
  /\ worker = [i \in Ids |-> "none"]
  /\ rejecting = {}
  /\ started = [i \in Ids |-> 0]
  /\ appliedAt = [i \in Ids |-> NoTime]
  /\ last = Step("init", 0, NoPayload, None, TRUE)
  /\ accepted = [i \in Ids |-> <<>>]
  /\ dispatched = <<>>
  /\ storage = NoStorage
  /\ persistDue = FALSE
  /\ batchUrls = <<>>
  /\ expansion = NoExpansion
  /\ failed = {}
  /\ inputs = NoInputs
  /\ invoked = <<>>
  /\ statusSeen = {}
  /\ unscheduled = {}

\* setDownloads(updater): the update is queued for the next render.
SetDownloads(next) ==
  /\ queued < MaxQueued
  /\ downloads' = next
  /\ queued' = queued + 1

\* ------------------------------------------------- worker events
\* listen("download-progress"): the throttle gate, then the state update
\* (the updater returns `prev` itself when nothing changed: no render).
DownloadProgress(p) ==
  /\ worker[p.id] = "running"
  /\ IF PassesThrottle(progressUpdateTimes, now, p)
     THEN /\ progressUpdateTimes' = SetKey(progressUpdateTimes, p.id, now)
          /\ IF ApplyProgress(downloads, p) # downloads
             THEN SetDownloads(ApplyProgress(downloads, p))
             ELSE UNCHANGED <<downloads, queued>>
     ELSE UNCHANGED <<progressUpdateTimes, downloads, queued>>
  /\ appliedAt' = IF downloads' # downloads /\ p.percentage < FINAL_STAGE_PERCENTAGE
                  THEN [appliedAt EXCEPT ![p.id] = now]
                  ELSE appliedAt
  /\ last' = Step("progress", p.id, p, None, TRUE)
  /\ UNCHANGED <<history, snap, effectDue, now, nextId, worker, rejecting, started>>
  /\ UNCHANGED <<accepted, dispatched, storage, persistDue, batchUrls, expansion, failed>>
  /\ UNCHANGED <<inputs, invoked, statusSeen, unscheduled>>

\* listen("download-log")
DownloadLog(i, message) ==
  /\ worker[i] = "running"
  /\ Len(accepted[i]) < MaxLogLines
  /\ IF Trim(message) = "" THEN UNCHANGED <<downloads, queued, accepted>>
     ELSE /\ SetDownloads(ApplyLog(downloads, i, Trim(message)))
          /\ accepted' = IF ApplyLog(downloads, i, Trim(message)) # downloads
                         THEN [accepted EXCEPT ![i] = Append(@, Trim(message))]
                         ELSE accepted
  /\ last' = Step("log", i, NoPayload, message, TRUE)
  /\ UNCHANGED <<history, snap, effectDue, progressUpdateTimes, now, nextId, worker,
                 rejecting, started, appliedAt>>
  /\ UNCHANGED <<dispatched, storage, persistDue, batchUrls, expansion, failed>>
  /\ UNCHANGED <<inputs, invoked, statusSeen, unscheduled>>

\* listen("download-title")
DownloadTitle(i, title) ==
  /\ worker[i] = "running"
  /\ SetDownloads(ApplyTitle(downloads, i, title))
  /\ last' = Step("title", i, NoPayload, title, TRUE)
  /\ UNCHANGED <<history, snap, effectDue, progressUpdateTimes, now, nextId, worker,
                 rejecting, started, appliedAt>>
  /\ UNCHANGED <<accepted, dispatched, storage, persistDue, batchUrls, expansion, failed>>
  /\ UNCHANGED <<inputs, invoked, statusSeen, unscheduled>>

\* listen("download-status"); `final`: the worker emits nothing after it.
DownloadStatus(i, s, final) ==
  /\ worker[i] = "running"
  /\ worker' = [worker EXCEPT ![i] = IF final THEN s ELSE @]
  /\ progressUpdateTimes' = RemoveKey(progressUpdateTimes, i)
  /\ SetDownloads(ApplyStatus(downloads, i, s))
  /\ last' = Step("status", i, NoPayload, s, final)
  /\ UNCHANGED <<history, snap, effectDue, now, nextId, rejecting, started, appliedAt>>
  /\ UNCHANGED <<accepted, dispatched, storage, persistDue, batchUrls, expansion, failed>>
  /\ statusSeen' = statusSeen \cup {i}
  /\ UNCHANGED unscheduled
  /\ UNCHANGED <<inputs, invoked>>

\* ------------------------------------------------- React scheduling
\* A render commits the queued updates; its closures see this value.
Render ==
  /\ ~effectDue
  /\ queued > 0
  /\ snap' = downloads
  /\ queued' = 0
  /\ effectDue' = TRUE
  /\ last' = Step("render", 0, NoPayload, None, TRUE)
  /\ UNCHANGED <<downloads, history, progressUpdateTimes, now, nextId, worker,
                 rejecting, started, appliedAt>>
  /\ UNCHANGED <<accepted, dispatched, storage, persistDue, batchUrls, expansion, failed>>
  /\ UNCHANGED <<inputs, invoked, statusSeen, unscheduled>>

\* useEffect(..., [downloads, savePath]): move terminal tasks to history.
MigrationEffect ==
  /\ effectDue
  /\ effectDue' = FALSE
  /\ history' = MigratedHistory(snap, history, now, inputs.savePath)
  /\ IF Len(SelectSeq(snap, IsTerminal)) > 0
     THEN /\ downloads' = MigratedDownloads(snap, downloads)
          /\ queued' = queued + 1
          /\ persistDue' = TRUE
     ELSE UNCHANGED <<downloads, queued, persistDue>>
  /\ last' = Step("effect", 0, NoPayload, None, TRUE)
  /\ UNCHANGED <<snap, progressUpdateTimes, now, nextId, worker, rejecting, started,
                 appliedAt>>
  /\ UNCHANGED <<accepted, dispatched, storage, batchUrls, expansion, failed>>
  /\ UNCHANGED <<inputs, invoked, statusSeen, unscheduled>>

\* ------------------------------------------------------ user actions
\* addDownload, single video branch, called with a URL, a format and a
\* subtitle setting: the new list is built from the rendered list.
\* ok: the start_download call succeeds.
SingleDownload(url, format, subtitles, ok) ==
  /\ nextId <= MaxTasks
  /\ SetDownloads(<<[NewDownload(nextId, "pending", None, None, NoTime)
                       EXCEPT !.url = url, !.title = TitleOf(url, "Video")]>> \o snap)
  /\ nextId' = nextId + 1
  /\ started' = [started EXCEPT ![nextId] = @ + 1]
  /\ dispatched' = Append(dispatched, nextId)
  /\ invoked' = Append(invoked, Invocation(nextId, url, inputs.savePath, format, subtitles))
  /\ IF ok THEN /\ worker' = [worker EXCEPT ![nextId] = "running"]
                /\ UNCHANGED rejecting
           ELSE /\ rejecting' = rejecting \cup {nextId}
                /\ UNCHANGED worker
  /\ last' = Step("add", nextId, NoPayload, None, ok)
  /\ UNCHANGED <<history, snap, effectDue, progressUpdateTimes, now, appliedAt>>
  /\ UNCHANGED <<accepted, storage, persistDue, batchUrls, expansion, failed>>
  /\ UNCHANGED <<statusSeen, unscheduled>>

\* addDownload for one video URL with a format chosen.
addDownload(ok) ==
  /\ SingleDownload("https://a/v", DEFAULT_FORMAT, FALSE, ok)
  /\ UNCHANGED inputs

\* The catch branch of a rejected start_download (addDownload).
StartRejected(i) ==
  /\ i \in rejecting
  /\ expansion.wait # i
  /\ rejecting' = rejecting \ {i}
  /\ SetDownloads([k \in DOMAIN downloads |->
                     IF downloads[k].id = i
                     THEN [downloads[k] EXCEPT !.status = "error"]
                     ELSE downloads[k]])
  /\ last' = Step("rejected", i, NoPayload, None, FALSE)
  /\ UNCHANGED <<history, snap, effectDue, progressUpdateTimes, now, nextId, worker,
                 started, appliedAt>>
  /\ UNCHANGED <<accepted, dispatched, storage, persistDue, batchUrls, expansion>>
  /\ failed' = failed \cup {i}
  /\ UNCHANGED <<inputs, invoked, statusSeen, unscheduled>>

\* handleFileImport: the import button is shown outside batch mode only.
handleFileImport(text) ==
  /\ batchUrls = <<>>
  /\ batchUrls' = IF Len(ImportedLines(text)) > 0 THEN ImportedLines(text) ELSE batchUrls
  /\ last' = Step("import", 0, NoPayload, text, TRUE)
  /\ UNCHANGED <<downloads, history, snap, queued, effectDue, progressUpdateTimes, now,
                 nextId, worker, rejecting, started, appliedAt>>
  /\ UNCHANGED <<accepted, dispatched, storage, persistDue, expansion, failed>>
  /\ inputs' = IF Len(ImportedLines(text)) > 0 THEN [inputs EXCEPT !.selectedFormat = ""]
                                               ELSE inputs
  /\ UNCHANGED <<invoked, statusSeen, unscheduled>>

\* One iteration of the loop of startBatchDownload up to its await: the task
\* for the first of urls is prepended to ds and start_download is invoked.
\* q: the updates queued before it; pending: the calls still rejecting;
\* ok: the call succeeds.
BatchIteration(ds, q, pending, urls, made, ok) ==
  /\ q < MaxQueued
  /\ nextId <= MaxTasks
  /\ downloads' = <<BatchItem(nextId, Head(urls), DEFAULT_FORMAT, "off")>> \o ds
  /\ queued' = q + 1
  /\ nextId' = nextId + 1
  /\ started' = [started EXCEPT ![nextId] = @ + 1]
  /\ dispatched' = Append(dispatched, nextId)
  /\ worker' = IF ok THEN [worker EXCEPT ![nextId] = "running"] ELSE worker
  /\ rejecting' = IF ok THEN pending ELSE pending \cup {nextId}
  /\ expansion' = [expansion EXCEPT !.kind = "batch", !.urls = Tail(urls),
                                     !.wait = nextId, !.made = Append(made, nextId),
                                     !.all = IF Len(made) = 0 THEN urls ELSE @,
                                     !.dir = IF Len(made) = 0 THEN inputs.savePath ELSE @,
                                     !.format = IF Len(made) = 0 THEN DEFAULT_FORMAT ELSE @,
                                     !.subtitles = IF Len(made) = 0 THEN FALSE ELSE @]
  /\ invoked' = Append(invoked, Invocation(nextId, Head(urls), expansion'.dir,
                                           expansion'.format, expansion'.subtitles))

\* startBatchDownload up to the await of its first start_download call.
startBatchDownload(ok) ==
  /\ Len(batchUrls) > 0
  /\ expansion.kind = None
  /\ nextId + Len(batchUrls) - 1 <= MaxTasks
  /\ BatchIteration(downloads, queued, rejecting, batchUrls, <<>>, ok)
  /\ last' = Step("batch", nextId, NoPayload, None, ok)
  /\ UNCHANGED <<history, snap, effectDue, progressUpdateTimes, now, appliedAt>>
  /\ UNCHANGED <<accepted, storage, persistDue, batchUrls, failed>>
  /\ UNCHANGED <<inputs, statusSeen, unscheduled>>

\* startBatchDownload resumed when the awaited call settles: the catch branch
\* if it was rejected, then the next iteration, or the end of the loop.
\* ok: the next call succeeds.
BatchResume(ok) ==
  LET id == expansion.wait
      caught == id \in rejecting
      ds == IF caught THEN MarkError(downloads, id) ELSE downloads
      q == IF caught THEN queued + 1 ELSE queued
  IN  /\ expansion.kind = "batch"
      /\ failed' = IF caught THEN failed \cup {id} ELSE failed
      /\ IF Len(expansion.urls) > 0
         THEN /\ BatchIteration(ds, q, rejecting \ {id}, expansion.urls, expansion.made, ok)
              /\ last' = Step("batchResume", nextId, NoPayload, None, ok)
              /\ UNCHANGED batchUrls
         ELSE /\ ok
              /\ q <= MaxQueued
              /\ downloads' = ds
              /\ queued' = q
              /\ rejecting' = rejecting \ {id}
              /\ batchUrls' = <<>>
              /\ expansion' = [expansion EXCEPT !.kind = None, !.wait = 0]
              /\ last' = Step("batchDone", 0, NoPayload, None, TRUE)
              /\ UNCHANGED <<nextId, started, dispatched, worker, invoked>>
      /\ UNCHANGED <<history, snap, effectDue, progressUpdateTimes, now, appliedAt>>
      /\ UNCHANGED <<accepted, storage, persistDue>>
      /\ UNCHANGED <<inputs, statusSeen, unscheduled>>

\* Mutant of PlaylistItem: the title is derived from the URL, as for a single video.
PlaylistItemUntitled(id, video) ==
  [NewDownload(id, "pending", None, None, NoTime)
     EXCEPT !.url = video.url, !.title = TitleOf(video.url, "Video")]

\* The task addDownload creates for one entry of a playlist.
PlaylistItem(id, video) ==
  [NewDownload(id, "pending", None, None, NoTime)
     EXCEPT !.url = video.url, !.title = video.title]

\* addDownload, playlist branch, called with the fetched entries, a format and
\* a subtitle setting, up to the await of the first start_download call: every
\* task is created at once.
ConfirmPlaylist(entries, format, subtitles, ok) ==
  LET n == Len(entries)
      ids == [k \in 1..n |-> nextId + k - 1]
      newDownloads == [k \in 1..n |-> PlaylistItem(ids[k], entries[k])]
  IN  /\ n > 0
      /\ expansion.kind = None
      /\ Len(batchUrls) = 0
      /\ nextId + n - 1 <= MaxTasks
      /\ SetDownloads(newDownloads \o downloads)
      /\ nextId' = nextId + n
      /\ started' = [started EXCEPT ![Head(ids)] = @ + 1]
      /\ dispatched' = Append(dispatched, Head(ids))
      /\ invoked' = Append(invoked, Invocation(Head(ids), entries[1].url, inputs.savePath,
                                               format, subtitles))
      /\ worker' = IF ok THEN [worker EXCEPT ![Head(ids)] = "running"] ELSE worker
      /\ rejecting' = IF ok THEN rejecting ELSE rejecting \cup {Head(ids)}
      /\ expansion' = [kind |-> "playlist", urls |-> <<>>, ids |-> Tail(ids),
                       wait |-> Head(ids), made |-> ids,
                       all |-> [k \in 1..n |-> entries[k].url],
                       dir |-> inputs.savePath, format |-> format, subtitles |-> subtitles]
      /\ last' = Step("playlist", Head(ids), NoPayload, None, ok)
      /\ UNCHANGED <<history, snap, effectDue, progressUpdateTimes, now, appliedAt>>
      /\ UNCHANGED <<accepted, storage, persistDue, batchUrls, failed>>
      /\ UNCHANGED <<statusSeen, unscheduled>>

\* addDownload for a playlist of n entries with a format chosen.
addPlaylist(n, ok) ==
  /\ ConfirmPlaylist(PlaylistEntries(n), DEFAULT_FORMAT, FALSE, ok)
  /\ UNCHANGED inputs

\* The playlist loop resumed when the awaited call settles.
PlaylistResume(ok) ==
  LET id == expansion.wait
      caught == id \in rejecting
  IN  /\ expansion.kind = "playlist"
      /\ failed' = IF caught THEN failed \cup {id} ELSE failed
      /\ IF caught THEN SetDownloads(MarkError(downloads, id))
                    ELSE UNCHANGED <<downloads, queued>>
      /\ IF Len(expansion.ids) > 0
         THEN /\ started' = [started EXCEPT ![Head(expansion.ids)] = @ + 1]
              /\ dispatched' = Append(dispatched, Head(expansion.ids))
              /\ invoked' = Append(invoked,
                   Invocation(Head(expansion.ids),
                              expansion.all[Len(expansion.made) - Len(expansion.ids) + 1],
                              expansion.dir, expansion.format, expansion.subtitles))
              /\ worker' = IF ok THEN [worker EXCEPT ![Head(expansion.ids)] = "running"]
                                  ELSE worker
              /\ rejecting' = IF ok THEN rejecting \ {id}
                                    ELSE (rejecting \ {id}) \cup {Head(expansion.ids)}
              /\ expansion' = [expansion EXCEPT !.ids = Tail(@), !.wait = Head(expansion.ids)]
              /\ last' = Step("playlistResume", Head(expansion.ids), NoPayload, None, ok)
         ELSE /\ ok
              /\ rejecting' = rejecting \ {id}
              /\ expansion' = [expansion EXCEPT !.kind = None, !.wait = 0]
              /\ last' = Step("playlistDone", 0, NoPayload, None, TRUE)
              /\ UNCHANGED <<started, dispatched, worker, invoked>>
      /\ UNCHANGED <<history, snap, effectDue, progressUpdateTimes, now, nextId, appliedAt>>
      /\ UNCHANGED <<accepted, storage, persistDue, batchUrls>>
      /\ UNCHANGED <<inputs, statusSeen, unscheduled>>

\* The subtitle flag as a task stores it.
SubtitleFlag(b) == IF b THEN "on" ELSE "off"

\* scheduleDownload called with the URLs to schedule, a format, a subtitle
\* setting and a time: one scheduled task per URL, nothing dispatched.
ScheduleUrls(urlsToSchedule, format, subtitles, t) ==
  LET n == Len(urlsToSchedule)
      made == [k \in 1..n |->
                 [NewDownload(nextId + k - 1, "scheduled", format, SubtitleFlag(subtitles), t)
                    EXCEPT !.url = urlsToSchedule[k],
                           !.title = TitleOf(urlsToSchedule[k], "Scheduled Video")]]
  IN  /\ n > 0
      /\ nextId + n - 1 <= MaxTasks
      /\ SetDownloads([k \in 1..n |-> made[n + 1 - k]] \o downloads)
      /\ nextId' = nextId + n
      /\ last' = Step("schedule", nextId, NoPayload, None, TRUE)
      /\ UNCHANGED <<history, snap, effectDue, progressUpdateTimes, now, worker, rejecting,
                     started, appliedAt>>
      /\ UNCHANGED <<accepted, dispatched, storage, persistDue, expansion, failed>>
      /\ UNCHANGED <<invoked, statusSeen, unscheduled>>

\* scheduleDownload for one video URL.
scheduleDownload(t) ==
  /\ ScheduleUrls(<<"https://a/v">>, DEFAULT_FORMAT, FALSE, t)
  /\ UNCHANGED <<inputs, batchUrls>>

\* Mutant of IsDue: the time of the task is not compared with the clock.
IsDueAtOnce(d, t) == d.status = "scheduled" /\ d.scheduledFor # NoTime

IsDue(d, t) == d.status = "scheduled" /\ d.scheduledFor # NoTime /\ t >= d.scheduledFor

\* Mutant of Promoted: every scheduled task is promoted, due or not, and every
\* other task is set to pending too.
PromotedAll(ds, t) == [k \in DOMAIN ds |-> [ds[k] EXCEPT !.status = "pending"]]

\* The list the updater of the tick returns: the due tasks set to pending.
Promoted(ds, t) ==
  [k \in DOMAIN ds |-> IF IsDue(ds[k], t) THEN [ds[k] EXCEPT !.status = "pending"]
                                          ELSE ds[k]]

\* The start_download call of the scheduler for a due task: the current save
\* path, the task's format or the default, the task's subtitle flag or the
\* current setting.
ScheduledInvocation(item) ==
  Invocation(item.id, item.url, inputs.savePath,
             IF item.format = None \/ item.format = "" THEN DEFAULT_FORMAT ELSE item.format,
             IF item.subtitles = None THEN inputs.withSubtitles ELSE item.subtitles = "on")

\* The setInterval callback: promote and dispatch every due scheduled task
\* (the updater returns `prev` itself when no task is due).
\* okSet: the due ids whose start_download call succeeds.
SchedulerTick(okSet) ==
  LET due == {downloads[k].id : k \in {j \in DOMAIN downloads : IsDue(downloads[j], now)}}
      dueItems == SelectSeq(downloads, LAMBDA d : IsDue(d, now))
  IN  /\ okSet \subseteq due
      /\ IF due = {} THEN UNCHANGED <<downloads, queued>>
         ELSE SetDownloads(Promoted(downloads, now))
      /\ started' = [i \in Ids |-> IF i \in due THEN started[i] + 1 ELSE started[i]]
      /\ dispatched' = dispatched \o [k \in DOMAIN dueItems |-> dueItems[k].id]
      /\ invoked' = invoked \o [k \in DOMAIN dueItems |-> ScheduledInvocation(dueItems[k])]
      /\ worker' = [i \in Ids |-> IF i \in okSet THEN "running" ELSE worker[i]]
      /\ last' = Step("tick", 0, NoPayload, None, okSet = due)
      /\ UNCHANGED <<history, snap, effectDue, progressUpdateTimes, now, nextId,
                     rejecting, appliedAt>>
      /\ UNCHANGED <<accepted, storage, persistDue, batchUrls, expansion>>
      /\ failed' = failed \cup (due \ okSet)
      /\ UNCHANGED <<inputs, statusSeen, unscheduled>>

\* ------------------------------------------------------- the URL form
\* A handler that changes the inputs only.
OnlyInputs(op, s, ok) ==
  /\ last' = Step(op, 0, NoPayload, s, ok)
  /\ UNCHANGED <<downloads, history, snap, queued, effectDue, progressUpdateTimes, now,
                 nextId, worker, rejecting, started, appliedAt>>
  /\ UNCHANGED <<accepted, dispatched, storage, persistDue, batchUrls, expansion, failed>>
  /\ UNCHANGED <<invoked, statusSeen, unscheduled>>

isBatchMode == Len(batchUrls) > 0

\* onChange of the URL field
setUrl(newUrl) ==
  /\ ~isBatchMode
  /\ newUrl # inputs.url
  /\ inputs' = IF newUrl # inputs.lastFetchedUrl
               THEN [inputs EXCEPT !.url = newUrl, !.selectedFormat = "",
                                   !.withSubtitles = FALSE, !.formatsError = "",
                                   !.isPlaylist = FALSE, !.playlistInfo = NoPlaylist]
               ELSE [inputs EXCEPT !.url = newUrl]
  /\ OnlyInputs("url", newUrl, TRUE)

\* The inputs after fetchFormats(videoUrl), up to the await of
\* fetch_playlist_info for a playlist URL.
FormatsFetched(inp, videoUrl) ==
  IF isPlaylistUrl(videoUrl)
  THEN [inp EXCEPT !.isPlaylist = TRUE, !.isFetchingPlaylist = TRUE, !.selectedFormat = "",
                   !.withSubtitles = FALSE, !.formatsError = "", !.fetching = videoUrl]
  ELSE [inp EXCEPT !.isPlaylist = FALSE, !.playlistInfo = NoPlaylist, !.selectedFormat = "",
                   !.withSubtitles = FALSE, !.formatsError = "", !.lastFetchedUrl = videoUrl]

\* The timer of the auto-fetch effect fires: fetchFormats(url).
fetchFormats ==
  /\ inputs.url # ""
  /\ ~isBatchMode
  /\ inputs.url # inputs.lastFetchedUrl
  /\ ~inputs.isFetchingPlaylist
  /\ StartsWith(inputs.url, "http://") \/ StartsWith(inputs.url, "https://")
  /\ inputs' = FormatsFetched(inputs, inputs.url)
  /\ OnlyInputs("fetch", inputs.url, TRUE)

\* Mutant of PlaylistFetchFailed: the error is not shown.
PlaylistFetchFailedSilently(inp, error) ==
  [inp EXCEPT !.playlistInfo = NoPlaylist, !.isFetchingPlaylist = FALSE, !.fetching = ""]

\* The inputs after the catch and the finally of a failed fetch_playlist_info.
PlaylistFetchFailed(inp, error) ==
  [inp EXCEPT !.formatsError = error, !.playlistInfo = NoPlaylist,
              !.isFetchingPlaylist = FALSE, !.fetching = ""]

\* fetch_playlist_info settles. ok: it returned the metadata, with n entries.
FetchPlaylistSettled(ok, n) ==
  /\ inputs.isFetchingPlaylist
  /\ inputs' = IF ok
               THEN [inputs EXCEPT !.playlistInfo = [loaded |-> TRUE,
                                                     entries |-> PlaylistEntries(n)],
                                   !.lastFetchedUrl = inputs.fetching,
                                   !.isFetchingPlaylist = FALSE, !.fetching = ""]
               ELSE PlaylistFetchFailed(inputs, "Error: fetch failed")
  /\ OnlyInputs("fetched", inputs.fetching, ok)

PlaylistPanelShown ==
  inputs.isPlaylist /\ inputs.playlistInfo.loaded /\ ~inputs.isFetchingPlaylist

VideoPanelShown ==
  ~inputs.isPlaylist /\ ~isBatchMode /\ inputs.url # "" /\ inputs.lastFetchedUrl # ""

\* A quality button of the playlist panel (without subtitles) or of the video
\* panel (with or without).
selectFormat(format, subtitles) ==
  /\ \/ PlaylistPanelShown /\ ~subtitles
     \/ VideoPanelShown
  /\ inputs' = [inputs EXCEPT !.selectedFormat = format, !.withSubtitles = subtitles]
  /\ OnlyInputs("format", format, subtitles)

\* The inputs after addDownload has cleared them.
ClearedInputs(inp) ==
  [inp EXCEPT !.url = "", !.selectedFormat = "", !.withSubtitles = FALSE,
              !.lastFetchedUrl = "", !.isPlaylist = FALSE, !.playlistInfo = NoPlaylist]

\* addDownload called on the inputs as they are: the playlist branch when
\* playlist metadata with entries is held, the single video branch otherwise.
addDownloadOfInputs(ok) ==
  /\ inputs.url # ""
  /\ inputs.selectedFormat # ""
  /\ ~isBatchMode
  /\ expansion.kind = None
  /\ IF inputs.isPlaylist /\ inputs.playlistInfo.loaded
        /\ Len(inputs.playlistInfo.entries) > 0
     THEN ConfirmPlaylist(inputs.playlistInfo.entries, inputs.selectedFormat,
                          inputs.withSubtitles, ok)
     ELSE SingleDownload(inputs.url, inputs.selectedFormat, inputs.withSubtitles, ok)
  /\ inputs' = ClearedInputs(inputs)

\* scheduleDownload called on the inputs as they are, with the time chosen.
scheduleDownloadOfInputs(t) ==
  /\ IF isBatchMode THEN TRUE ELSE inputs.url # "" /\ inputs.selectedFormat # ""
  /\ ScheduleUrls(IF isBatchMode THEN batchUrls ELSE <<inputs.url>>,
                  IF isBatchMode \/ inputs.selectedFormat = "" THEN DEFAULT_FORMAT
                  ELSE inputs.selectedFormat,
                  IF isBatchMode THEN FALSE ELSE inputs.withSubtitles, t)
  /\ inputs' = [inputs EXCEPT !.url = ""]
  /\ batchUrls' = <<>>

\* selectFolder once the dialog has returned the directory chosen.
selectFolder(selected) ==
  /\ selected # ""
  /\ inputs' = [inputs EXCEPT !.savePath = selected]
  /\ last' = Step("folder", 0, NoPayload, selected, TRUE)
  /\ UNCHANGED <<downloads, history, snap, queued, effectDue, progressUpdateTimes, now,
                 nextId, worker, rejecting, started, appliedAt>>
  /\ UNCHANGED <<accepted, dispatched, storage, persistDue, batchUrls, expansion, failed>>
  /\ UNCHANGED <<invoked, statusSeen, unscheduled>>

\* The subtitle switch of the playlist panel.
setWithSubtitles(b) ==
  /\ PlaylistPanelShown
  /\ inputs.selectedFormat \notin {"", "ba/b"}
  /\ inputs.withSubtitles # b
  /\ inputs' = [inputs EXCEPT !.withSubtitles = b]
  /\ last' = Step("subtitles", 0, NoPayload, None, b)
  /\ UNCHANGED <<downloads, history, snap, queued, effectDue, progressUpdateTimes, now,
                 nextId, worker, rejecting, started, appliedAt>>
  /\ UNCHANGED <<accepted, dispatched, storage, persistDue, batchUrls, expansion, failed>>
  /\ UNCHANGED <<invoked, statusSeen, unscheduled>>

\* cancelDownload at the moment the cancel_download call returns.
\* ok: the call succeeded.
cancelDownload(i, ok) ==
  /\ Has(snap, i)
  /\ Item(snap, i).status \in ActiveStatus
  /\ IF ok THEN UNCHANGED <<downloads, queued>>
     ELSE SetDownloads(SelectSeq(downloads, LAMBDA d : d.id # i))
  /\ last' = Step("cancel", i, NoPayload, None, ok)
  /\ UNCHANGED <<history, snap, effectDue, progressUpdateTimes, now, nextId, worker,
                 rejecting, started, appliedAt>>
  /\ UNCHANGED <<accepted, dispatched, storage, persistDue, batchUrls, expansion, failed>>
  /\ UNCHANGED <<inputs, invoked, statusSeen, unscheduled>>

\* Mutant of WithoutTask: the task is left in the list.
WithoutTaskKept(ds, i) == ds

\* prev.filter(d => d.id !== item.id)
WithoutTask(ds, i) == SelectSeq(ds, LAMBDA d : d.id # i)

\* The "Cancel scheduled download" button of a rendered scheduled task. The
\* update of a click handler is committed when the handler returns, before
\* any other event is handled: the step ends with the render.
RemoveScheduled(i) ==
  /\ ~effectDue
  /\ Has(snap, i)
  /\ Item(snap, i).status = "scheduled"
  /\ downloads' = WithoutTask(downloads, i)
  /\ snap' = downloads'
  /\ queued' = 0
  /\ effectDue' = TRUE
  /\ last' = Step("unschedule", i, NoPayload, None, TRUE)
  /\ UNCHANGED <<history, progressUpdateTimes, now, nextId, worker,
                 rejecting, started, appliedAt>>
  /\ UNCHANGED <<accepted, dispatched, storage, persistDue, batchUrls, expansion, failed>>
  /\ UNCHANGED <<inputs, invoked, statusSeen>>
  /\ unscheduled' = IF now < Item(snap, i).scheduledFor THEN unscheduled \cup {i}
                                                         ELSE unscheduled

clearHistory ==
  /\ Len(history) > 0
  /\ history' = <<>>
  /\ storage' = NoStorage
  /\ persistDue' = TRUE
  /\ last' = Step("clearHistory", 0, NoPayload, None, TRUE)
  /\ UNCHANGED <<downloads, snap, queued, effectDue, progressUpdateTimes, now, nextId,
                 worker, rejecting, started, appliedAt>>
  /\ UNCHANGED <<accepted, dispatched, batchUrls, expansion, failed>>
  /\ UNCHANGED <<inputs, invoked, statusSeen, unscheduled>>

removeFromHistory(i) ==
  /\ Has(history, i)
  /\ history' = SelectSeq(history, LAMBDA h : h.id # i)
  /\ persistDue' = TRUE
  /\ last' = Step("removeFromHistory", i, NoPayload, None, TRUE)
  /\ UNCHANGED <<downloads, snap, queued, effectDue, progressUpdateTimes, now, nextId,
                 worker, rejecting, started, appliedAt>>
  /\ UNCHANGED <<accepted, dispatched, storage, batchUrls, expansion, failed>>
  /\ UNCHANGED <<inputs, invoked, statusSeen, unscheduled>>

\* useEffect(..., [history]): the history is written when it is not empty.
PersistEffect ==
  /\ persistDue
  /\ persistDue' = FALSE
  /\ storage' = IF Len(history) > 0
                THEN [present |-> TRUE, value |-> Encode(history)]
                ELSE storage
  /\ last' = Step("persist", 0, NoPayload, None, TRUE)
  /\ UNCHANGED <<downloads, history, snap, queued, effectDue, progressUpdateTimes, now,
                 nextId, worker, rejecting, started, appliedAt>>
  /\ UNCHANGED <<accepted, dispatched, batchUrls, expansion, failed>>
  /\ UNCHANGED <<inputs, invoked, statusSeen, unscheduled>>

\* The application is closed and opened again: the component state starts
\* anew and the mount effect loads the persisted history.
Restart ==
  /\ downloads' = <<>>
  /\ snap' = <<>>
  /\ queued' = 0
  /\ effectDue' = FALSE
  /\ progressUpdateTimes' = [i \in {} |-> NoTime]
  /\ history' = LoadHistory(storage)
  /\ persistDue' = storage.present
  /\ worker' = [i \in Ids |-> IF worker[i] = "running" THEN "none" ELSE worker[i]]
  /\ rejecting' = {}
  /\ batchUrls' = <<>>
  /\ expansion' = NoExpansion
  /\ last' = Step("restart", 0, NoPayload, None, TRUE)
  /\ UNCHANGED <<now, nextId, started, appliedAt>>
  /\ UNCHANGED <<accepted, dispatched, storage, failed>>
  /\ inputs' = [NoInputs EXCEPT !.savePath = inputs.savePath]
  /\ UNCHANGED <<invoked, statusSeen, unscheduled>>

\* Wall-clock time passes.
Advance(dt) ==
  /\ now + dt <= MaxTime
  /\ now' = now + dt
  /\ last' = Step("advance", 0, NoPayload, None, TRUE)
  /\ UNCHANGED <<downloads, history, snap, queued, effectDue, progressUpdateTimes, nextId,
                 worker, rejecting, started, appliedAt>>
  /\ UNCHANGED <<accepted, dispatched, storage, persistDue, batchUrls, expansion, failed>>
  /\ UNCHANGED <<inputs, invoked, statusSeen, unscheduled>>

\* ------------------------------------------------- specifications
\* The lifecycle of one task: submission, worker events, cancellation,
\* rendering and migration to history.
LifecyclePayloads == {ProgressPayload(i, 5000, "1 MB/s", "video") : i \in Ids}

Next ==
  \/ \E p \in LifecyclePayloads : DownloadProgress(p)
  \/ \E i \in Ids, s \in TerminalStatus, final \in BOOLEAN : DownloadStatus(i, s, final)
  \/ Render
  \/ MigrationEffect
  \/ \E ok \in BOOLEAN : nextId = 1 /\ addDownload(ok)
  \/ \E i \in Ids : StartRejected(i)
  \/ \E i \in Ids, ok \in BOOLEAN : cancelDownload(i, ok)
  \/ clearHistory
  \/ \E i \in Ids : removeFromHistory(i)

Spec == Init /\ [][Next]_vars

\* Submissions racing with worker events: several tasks, each worker ending
\* with its status event.
SubmitNext ==
  \/ \E p \in LifecyclePayloads : DownloadProgress(p)
  \/ \E i \in Ids, s \in TerminalStatus : DownloadStatus(i, s, TRUE)
  \/ Render
  \/ MigrationEffect
  \/ addDownload(TRUE)

SubmitSpec == Init /\ [][SubmitNext]_vars

\* Every queued update is rendered and every effect of a render runs.
FairSubmitSpec == SubmitSpec /\ WF_vars(Render) /\ WF_vars(MigrationEffect)

\* Throttling: one task, time in steps finer than the throttle interval,
\* progress payloads around the thresholds.
ThrottlePayloads ==
  {ProgressPayload(1, pct, "1 MB/s", "video") : pct \in {1000, 1010, 9900, 9910}}

ThrottleNext ==
  \/ \E p \in ThrottlePayloads : DownloadProgress(p)
  \/ DownloadStatus(1, "completed", FALSE)
  \/ Render
  \/ MigrationEffect
  \/ nextId = 1 /\ addDownload(TRUE)
  \/ Advance(TimeStep)

ThrottleSpec == Init /\ [][ThrottleNext]_vars

\* A full history: the Ledger already holds n archived tasks, persisted.
Archived(id) ==
  Stamp([NewDownload(id, "completed", None, None, NoTime) EXCEPT !.progress = FULL_PROGRESS],
        StartTime, DEFAULT_SAVE_PATH)

HistoryInit ==
  \E n \in (HISTORY_LIMIT - HistoryRoom)..HISTORY_LIMIT :
    /\ history = [k \in 1..n |-> Archived(MaxTasks + n - k + 1)]
    /\ storage = [present |-> TRUE, value |-> Encode(history)]
    /\ downloads = <<>>
    /\ snap = <<>>
    /\ queued = 0
    /\ effectDue = FALSE
    /\ progressUpdateTimes = [i \in {} |-> NoTime]
    /\ now = StartTime
    /\ nextId = 1
    /\ worker = [i \in Ids |-> "none"]
    /\ rejecting = {}
    /\ started = [i \in Ids |-> 0]
    /\ appliedAt = [i \in Ids |-> NoTime]
    /\ last = Step("init", 0, NoPayload, None, TRUE)
    /\ accepted = [i \in Ids |-> <<>>]
    /\ dispatched = <<>>
    /\ persistDue = FALSE
    /\ batchUrls = <<>>
    /\ expansion = NoExpansion
    /\ failed = {}
    /\ inputs = NoInputs
    /\ invoked = <<>>
    /\ statusSeen = {}
    /\ unscheduled = {}

HistoryNext ==
  \/ \E i \in Ids, s \in TerminalStatus : DownloadStatus(i, s, TRUE)
  \/ Render
  \/ MigrationEffect
  \/ addDownload(TRUE)

HistorySpec == HistoryInit /\ [][HistoryNext]_vars

\* Scheduling: tasks scheduled for a time, the interval callback, a URL
\* submitted meanwhile.
ScheduleTimes == {StartTime + TimeStep, StartTime + 2 * TimeStep}

ScheduleNext ==
  \/ \E t \in ScheduleTimes : scheduleDownload(t)
  \/ \E okSet \in SUBSET Ids : SchedulerTick(okSet)
  \/ \E i \in Ids : RemoveScheduled(i)
  \/ addDownload(TRUE)
  \/ Render
  \/ MigrationEffect
  \/ \E i \in Ids : DownloadStatus(i, "completed", TRUE)
  \/ Advance(TimeStep)

ScheduleSpec == Init /\ [][ScheduleNext]_vars

\* Expansion: a text file imported and started as a batch, or a playlist.
RawLines ==
  {<<"https://a/1", "", "http://b/2">>,
   <<"  https://a/1 \r", "ftp://c/3", "\thttps://b/">>,
   <<"HTTP://A/1", "https://a/1", "https://a/1">>,
   <<"", " ", "a/http://b">>}

RECURSIVE JoinLines(_)
JoinLines(lines) ==
  IF Len(lines) = 1 THEN lines[1] ELSE lines[1] \o "\n" \o JoinLines(Tail(lines))

ImportFiles == {JoinLines(lines) : lines \in RawLines}

BatchNext ==
  \/ \E text \in ImportFiles : handleFileImport(text)
  \/ \E ok \in BOOLEAN : startBatchDownload(ok)
  \/ \E ok \in BOOLEAN : BatchResume(ok)
  \/ \E n \in 1..MaxTasks, ok \in BOOLEAN : addPlaylist(n, ok)
  \/ \E ok \in BOOLEAN : PlaylistResume(ok)
  \/ \E i \in Ids : DownloadStatus(i, "completed", TRUE)
  \/ Render
  \/ MigrationEffect

BatchSpec == Init /\ [][BatchNext]_vars

\* Persistence: tasks archived, history entries removed, the application
\* restarted.
PersistNext ==
  \/ addDownload(TRUE)
  \/ \E i \in Ids, s \in TerminalStatus : DownloadStatus(i, s, TRUE)
  \/ Render
  \/ MigrationEffect
  \/ PersistEffect
  \/ clearHistory
  \/ \E i \in Ids : removeFromHistory(i)
  \/ Restart

PersistSpec == Init /\ [][PersistNext]_vars

\* Logging: one task receiving log lines while a second URL is submitted.
\* The task has already received n distinct consecutive lines, all rendered.
LogMessages == {"a", " b\r\n", " "}

LoggedLines(n) == [k \in 1..n |-> IF k % 2 = 1 THEN "a" ELSE "b"]

LogInit ==
  \E n \in LogStart..(LogStart + 1) :
    /\ downloads = <<[NewDownload(1, "pending", None, None, NoTime)
                       EXCEPT !.logs = LoggedLines(n)]>>
    /\ snap = downloads
    /\ accepted = [i \in Ids |-> IF i = 1 THEN LoggedLines(n) ELSE <<>>]
    /\ history = <<>>
    /\ queued = 0
    /\ effectDue = FALSE
    /\ progressUpdateTimes = [i \in {} |-> NoTime]
    /\ now = StartTime
    /\ nextId = 2
    /\ worker = [i \in Ids |-> IF i = 1 THEN "running" ELSE "none"]
    /\ rejecting = {}
    /\ started = [i \in Ids |-> IF i = 1 THEN 1 ELSE 0]
    /\ appliedAt = [i \in Ids |-> NoTime]
    /\ last = Step("init", 0, NoPayload, None, TRUE)
    /\ dispatched = <<1>>
    /\ storage = NoStorage
    /\ persistDue = FALSE
    /\ batchUrls = <<>>
    /\ expansion = NoExpansion
    /\ failed = {}
    /\ inputs = NoInputs
    /\ invoked = <<Invocation(1, "https://a/v", DEFAULT_SAVE_PATH, DEFAULT_FORMAT, FALSE)>>
    /\ statusSeen = {}
    /\ unscheduled = {}

LogNext ==
  \/ \E message \in LogMessages : DownloadLog(1, message)
  \/ Render
  \/ MigrationEffect
  \/ addDownload(TRUE)

LogSpec == LogInit /\ [][LogNext]_vars

\* ------------------------------------------------------------ claims
Live(ds, i) == Has(ds, i) /\ Item(ds, i).status \notin TerminalStatus

Active(ds, i) == Has(ds, i) /\ Item(ds, i).status \in ActiveStatus

\* Task i is terminal: terminal in the Registry, or archived in the Ledger.
Ended(ds, hs, i) ==
  \/ Has(ds, i) /\ Item(ds, i).status \in TerminalStatus
  \/ ~Has(ds, i) /\ Has(hs, i)

HasStatus(ds, hs, i, s) ==
  \/ Has(ds, i) /\ Item(ds, i).status = s
  \/ Has(hs, i) /\ Item(hs, i).status = s

\* C1: once a task's status is completed, error or cancelled, no step sets
\* it back to scheduled, pending or downloading.
C1_TerminalIsFinal ==
  [][\A i \in Ids : Ended(downloads, history, i) => ~Live(downloads', i)]_vars

\* C2: no task id is in the Registry and in the Ledger at once.
C2_RegistryLedgerDisjoint == IdsOf(downloads) \cap IdsOf(history) = {}

\* C3: when the last event of a task's worker is a status event with status
\* s, eventually the task is out of the Registry and in the Ledger with s.
C3_Convergence ==
  \A i \in Ids : \A s \in TerminalStatus :
    [](worker[i] = s =>
         <>(~Has(downloads, i) /\ Has(history, i) /\ Item(history, i).status = s))

\* C4: when cancelDownload returns for a downloading task with the
\* cancel_download call failed, the task has status cancelled.
C4_CancelYieldsCancelled ==
  [][\A i \in Ids :
       (last'.op = "cancel" /\ last'.id = i /\ ~last'.ok
          /\ Has(downloads, i) /\ Item(downloads, i).status = "downloading")
       => HasStatus(downloads', history', i, "cancelled")]_vars

\* C5: when cancelDownload returns for a pending or downloading task, with
\* either outcome, the task is no longer in the active set.
C5_CancelLeavesActiveSet ==
  [][\A i \in Ids :
       (last'.op = "cancel" /\ last'.id = i /\ Active(downloads, i))
       => ~Active(downloads', i)]_vars

\* The Registry and Ledger after the queued updates are rendered and the
\* migration effect has run.
C6_Settled(ds, hs) ==
  <<MigratedDownloads(ds, ds), MigratedHistory(ds, hs, now, DEFAULT_SAVE_PATH)>>

C6_Computed ==
  \A i \in Ids :
    LET once == ApplyStatus(downloads, i, "completed")
        twice == ApplyStatus(once, i, "completed")
        migrated == C6_Settled(once, history)
        again == ApplyStatus(migrated[1], i, "completed")
    IN  /\ twice = once
        /\ C6_Settled(twice, history) = migrated
        /\ again = migrated[1]
        /\ C6_Settled(again, migrated[2]) = migrated

C6_Step ==
  \A i \in Ids :
    (/\ last'.op = "status" /\ last'.s = "completed" /\ last'.id = i
     /\ \/ Has(downloads, i) /\ Item(downloads, i).status = "completed"
        \/ ~Has(downloads, i) /\ HasStatus(<<>>, history, i, "completed"))
    => downloads' = downloads /\ history' = history

\* C6: applying download-status 'completed' for a task twice, back to back
\* or with the migration in between, gives the Registry and Ledger that
\* applying it once gives; a 'completed' event for a task that is already
\* completed, in the Registry or in the Ledger, changes neither.
C6_CompletedTwiceIsOnce == []C6_Computed /\ [][C6_Step]_vars

\* C6 witness: the event has been applied to a task that was downloading,
\* and the task is still in the Registry.
C6_Witness ==
  /\ last.op = "status" /\ last.s = "completed"
  /\ Has(downloads, last.id)
  /\ Item(downloads, last.id).status = "completed"
  /\ Item(downloads, last.id).speed = "1 MB/s"

\* C7: a download-status event for a task that is terminal in the Registry
\* leaves the task's status as it was.
C7_StatusOnTerminalIgnored ==
  [][\A i \in Ids :
       (last'.op = "status" /\ last'.id = i
          /\ Has(downloads, i) /\ IsTerminal(Item(downloads, i)) /\ Has(downloads', i))
       => Item(downloads', i).status = Item(downloads, i).status]_vars

\* C8: two progress events below 99% that change the Registry entry of one
\* task are at least PROGRESS_UPDATE_INTERVAL_MS apart.
C8_AppliedEventsApart ==
  [][\A i \in Ids :
       (appliedAt'[i] # appliedAt[i] /\ appliedAt[i] # NoTime)
       => appliedAt'[i] - appliedAt[i] >= PROGRESS_UPDATE_INTERVAL_MS]_vars

\* C9 as stated: after a progress event of 99% or more for a task in the
\* Registry, the stored progress is the event's percentage.
C9_FinalStageStored ==
  (last.op = "progress" /\ last.p.percentage >= FINAL_STAGE_PERCENTAGE
     /\ Has(downloads, last.id))
  => Item(downloads, last.id).progress = last.p.percentage

\* C9 amended: such an event always passes the throttle gate, and after it
\* the task is downloading with the event's speed, eta, size and phase and a
\* stored progress less than MIN_PROGRESS_DELTA away from the event's.
C9_FinalStagePassesGate ==
  (last.op = "progress" /\ last.p.percentage >= FINAL_STAGE_PERCENTAGE
     /\ Has(downloads, last.id))
  => /\ last.id \in DOMAIN progressUpdateTimes
     /\ progressUpdateTimes[last.id] = now
     /\ ~ProgressDiffers(Item(downloads, last.id), last.p)

\* C9 witness: a 99% event stored less than the throttle interval after a
\* lower one was stored.
C9_Witness ==
  /\ last.op = "progress" /\ last.p.percentage >= FINAL_STAGE_PERCENTAGE
  /\ Has(downloads, last.id)
  /\ Item(downloads, last.id).progress = last.p.percentage
  /\ appliedAt[last.id] # NoTime
  /\ now - appliedAt[last.id] < PROGRESS_UPDATE_INTERVAL_MS

\* C10: no step lowers the stored progress of a task (stated for a task
\* that is pending or downloading before the step).
C10_ProgressNeverDecreases ==
  [][\A i \in Ids :
       (Active(downloads, i) /\ Has(downloads', i))
       => Item(downloads', i).progress >= Item(downloads, i).progress]_vars

\* The last n elements of a sequence.
LastLines(s, n) == IF Len(s) <= n THEN s ELSE SubSeq(s, Len(s) - n + 1, Len(s))

\* C11: a task's logs never hold more than MAX_LOG_LINES_PER_DOWNLOAD lines,
\* and once more lines than that have been appended for a task in the
\* Registry, its logs are the MAX_LOG_LINES_PER_DOWNLOAD most recent of them,
\* in arrival order.
C11_LogRing ==
  \A k \in DOMAIN downloads :
    /\ Len(downloads[k].logs) <= MAX_LOG_LINES_PER_DOWNLOAD
    /\ Len(accepted[downloads[k].id]) > MAX_LOG_LINES_PER_DOWNLOAD
         => downloads[k].logs
              = LastLines(accepted[downloads[k].id], MAX_LOG_LINES_PER_DOWNLOAD)

\* The ids the migration effect is about to add to the Ledger.
Migrating == {i \in IdsOf(SelectSeq(snap, IsTerminal)) : ~Has(history, i)}

C12_Step ==
  last'.op = "effect" =>
    LET n == Cardinality(Migrating)
        kept == Len(history') - n
    IN  /\ Migrating \subseteq IdsOf(history')
        /\ Len(history') = IF Len(history) + n <= HISTORY_LIMIT
                           THEN Len(history) + n ELSE HISTORY_LIMIT
        /\ kept >= 0
        /\ [k \in 1..kept |-> history'[n + k]] = [k \in 1..kept |-> history[k]]

\* C12: the Ledger never holds more than HISTORY_LIMIT entries; a migration
\* keeps every entry it adds and, of the entries there before, the most
\* recently added ones in their order, dropping the earliest-added beyond
\* the limit and none when the limit is not exceeded.
C12_LedgerCap == [](Len(history) <= HISTORY_LIMIT) /\ [][C12_Step]_vars

\* C12 witness: the Ledger is full, a migrated task is in it and the entry
\* that was added earliest is gone.
C12_Witness ==
  /\ last.op = "effect"
  /\ Len(history) = HISTORY_LIMIT
  /\ \E i \in Ids : Has(history, i)
  /\ ~Has(history, MaxTasks + 1)

EntriesOf(hist, i) == SelectSeq(hist, LAMBDA h : h.id = i)

C13_Step ==
  \A i \in Ids :
    (last'.op = "effect" /\ Has(history, i)
       /\ Has(snap, i) /\ IsTerminal(Item(snap, i)))
    => EntriesOf(history', i) = EntriesOf(history, i)

\* C13: no two Ledger entries have the same id; a migration of a terminal
\* task whose id is already in the Ledger leaves the entries with that id
\* as they were.
C13_LedgerIdsUnique ==
  [](\A i \in IdsOf(history) : Len(EntriesOf(history, i)) = 1) /\ [][C13_Step]_vars

\* C13 witness: the migration effect has run for a terminal task whose id
\* was in the Ledger already with another status.
C13_Witness ==
  /\ last.op = "effect"
  /\ \E i \in Ids :
       /\ Has(snap, i) /\ IsTerminal(Item(snap, i))
       /\ Has(history, i) /\ Item(history, i).status # Item(snap, i).status

\* C14: a scheduler tick sets every scheduled task that is due to pending and
\* invokes start_download for it, and no task has start_download invoked for
\* it more than once over the run.
C14_DueDispatchedOnce ==
  /\ [](\A i \in Ids : started[i] <= 1)
  /\ [][\A i \in Ids :
          (last'.op = "tick" /\ Has(downloads, i) /\ IsDue(Item(downloads, i), now))
          => /\ Item(downloads', i).status = "pending"
             /\ started'[i] = 1]_vars

\* C15: the start_download calls of one scheduler tick are issued in task
\* creation order (ids are given in creation order).
C15_TickInCreationOrder ==
  [][last'.op = "tick" =>
       \A j, k \in (Len(dispatched) + 1)..Len(dispatched') :
         j < k => dispatched'[j] < dispatched'[k]]_vars

\* C16: once the rejection of a task's start_download call has been caught,
\* the task has status error, in the Registry or in the Ledger.
C16_RejectedBecomesError ==
  [][\A i \in failed' \ failed : HasStatus(downloads', history', i, "error")]_vars

\* The batch or playlist loop started last has run to its end.
ExpansionDone == expansion.kind = None /\ Len(expansion.all) > 0

\* C17: when a batch or playlist expansion over N URLs has ended, N distinct
\* tasks were created and start_download was invoked once for each, whatever
\* calls were rejected; and a task has status error only if its own call was
\* rejected.
C17_FailureSparesSiblings ==
  /\ [](ExpansionDone =>
          /\ Len(expansion.made) = Len(expansion.all)
          /\ Cardinality({expansion.made[k] : k \in DOMAIN expansion.made})
               = Len(expansion.all)
          /\ \A k \in DOMAIN expansion.made : started[expansion.made[k]] = 1)
  /\ [](\A i \in Ids : HasStatus(downloads, history, i, "error") => i \in failed)

\* C17 witness: an expansion over two URLs has ended; the first call was
\* rejected and its task has status error, the second task was dispatched
\* and has not.
C17_Witness ==
  /\ ExpansionDone
  /\ Len(expansion.made) = 2
  /\ expansion.made[1] \in failed
  /\ HasStatus(downloads, history, expansion.made[1], "error")
  /\ started[expansion.made[2]] = 1
  /\ worker[expansion.made[2]] = "running"
  /\ HasStatus(downloads, <<>>, expansion.made[2], "pending")

\* A line that is a URL once trimmed.
IsUrlLine(line) ==
  Trim(line) # "" /\ (StartsWith(Trim(line), "http://") \/ StartsWith(Trim(line), "https://"))

\* The trimmed URL lines of a file given by its lines, in file order.
UrlLines(lines) ==
  LET urls == SelectSeq(lines, IsUrlLine) IN [k \in DOMAIN urls |-> Trim(urls[k])]

C20_Step ==
  /\ \A lines \in RawLines :
       (last'.op = "import" /\ last'.s = JoinLines(lines)) => batchUrls' = UrlLines(lines)
  /\ last'.op = "batch" => expansion'.all = batchUrls /\ Len(expansion'.made) = 1
  /\ last'.op \in {"batch", "batchResume"} =>
       LET k == Len(expansion'.made)
           id == expansion'.made[k]
       IN  /\ k = (IF last'.op = "batch" THEN 0 ELSE Len(expansion.made)) + 1
           /\ ~Has(downloads, id)
           /\ IdsOf(downloads') = IdsOf(downloads) \cup {id}
           /\ Len(downloads') = Len(downloads) + 1
           /\ Item(downloads', id).status = "pending"
           /\ Item(downloads', id).url = expansion'.all[k]
  /\ last'.op = "batchDone" =>
       /\ Len(expansion.made) = Len(expansion.all)
       /\ IdsOf(downloads') = IdsOf(downloads)

\* C20: importing a file leaves as batch URLs exactly its lines that are
\* URLs once trimmed, trimmed and in file order; the batch started from them
\* creates one new task per URL, in that order, each with that URL and status
\* pending when created, and no other task.
C20_OneTaskPerUrlLine == [][C20_Step]_vars

\* C20 witness: the batch imported from the three-line file with one blank
\* line has run to its end and created two tasks.
C20_Witness ==
  /\ last.op = "batchDone"
  /\ expansion.all = <<"https://a/1", "http://b/2">>
  /\ Len(expansion.made) = 2

\* C18: once the persistence effect has run after a Ledger mutation, the
\* persisted value decodes to the Ledger (an absent key to the empty Ledger),
\* and a restart at such a moment reloads the Ledger as it was.
C18_PersistedIsLedger ==
  /\ [](~persistDue => LoadHistory(storage) = history)
  /\ [][(last'.op = "restart" /\ ~persistDue) => history' = history]_vars

\* C19: after any step that removes a task id from the Registry, the Ledger
\* holds an entry with that id.
C19_LeavesOnlyByMigration ==
  [][\A i \in Ids :
       (Has(downloads, i) /\ ~Has(downloads', i)) => Has(history', i)]_vars

\* C25: once a download-status event has been received for a task, the
\* throttle bookkeeping holds no timestamp for that task in any later state.
C25_NoTimestampAfterStatus ==
  \A i \in statusSeen : i \notin DOMAIN progressUpdateTimes

\* C27: every task whose status becomes error has its log panel open
\* (isLogsOpen true) in the state in which it becomes error.
C27_ErrorOpensLogs ==
  [][\A i \in Ids :
       (/\ Has(downloads', i)
        /\ Item(downloads', i).status = "error"
        /\ (~Has(downloads, i) \/ Item(downloads, i).status # "error"))
       => Item(downloads', i).isLogsOpen]_vars

\* The event carries nothing new for the task as stored: the percentage is
\* within MIN_PROGRESS_DELTA of the stored progress and speed, eta, size and
\* phase are the stored ones.
NothingNew(item, p) ==
  /\ Abs(item.progress - p.percentage) < MIN_PROGRESS_DELTA
  /\ item.speed = p.speed
  /\ item.eta = p.eta
  /\ item.size = p.size
  /\ item.phase = p.phase

\* C30: a download-progress event that passes the throttle gate and carries
\* nothing new for a task already in status downloading leaves the Registry
\* unchanged: the same value, and no update is queued for rendering.
C30_NothingNewNoUpdate ==
  [][(/\ last'.op = "progress"
      /\ PassesThrottle(progressUpdateTimes, now, last'.p)
      /\ Has(downloads, last'.id)
      /\ Item(downloads, last'.id).status = "downloading"
      /\ NothingNew(Item(downloads, last'.id), last'.p))
     => (downloads' = downloads /\ queued' = queued)]_vars

\* A gate-passing event with 10.10% has just been received for a task stored
\* as downloading with 10.00%, applied at an earlier time.
C30_Witness ==
  /\ last.op = "progress"
  /\ last.p.percentage = 1010
  /\ Has(downloads, 1)
  /\ Item(downloads, 1).status = "downloading"
  /\ Item(downloads, 1).progress = 1000
  /\ NothingNew(Item(downloads, 1), last.p)
  /\ 1 \in DOMAIN progressUpdateTimes
  /\ progressUpdateTimes[1] = now
  /\ appliedAt[1] < now

\* Progress events with and without a phase, for a task submitted at once or
\* scheduled and promoted, with title and log events in between.
PhasePayloads ==
  {ProgressPayload(1, pct, "1 MB/s", ph) : pct \in {5000, 9900}, ph \in {"video", None}}

PhaseNext ==
  \/ \E p \in PhasePayloads : DownloadProgress(p)
  \/ DownloadLog(1, "a")
  \/ DownloadTitle(1, "Title")
  \/ Render
  \/ nextId = 1 /\ addDownload(TRUE)
  \/ nextId = 1 /\ scheduleDownload(StartTime)
  \/ \E okSet \in SUBSET Ids : SchedulerTick(okSet)

PhaseSpec == Init /\ [][PhaseNext]_vars

\* The fields of a task that a progress event does not supply.
FrameFields == {"id", "url", "title", "logs", "isLogsOpen", "downloadPath", "completedAt",
                "format", "subtitles", "scheduledFor"}

\* C26: applying a download-progress event leaves title, logs, url, format,
\* subtitles, scheduledFor and the other fields the event does not supply as
\* they were, and leaves the phase as it was when the event carries no phase.
C26_ProgressFrame ==
  [][(last'.op = "progress" /\ Has(downloads, last'.id))
     => /\ Has(downloads', last'.id)
        /\ \A f \in FrameFields :
             Item(downloads', last'.id)[f] = Item(downloads, last'.id)[f]
        /\ last'.p.phase = None
             => Item(downloads', last'.id).phase = Item(downloads, last'.id).phase]_vars

\* Pages 1..n of a list, one after the other.
RECURSIVE PagesJoined(_, _)
PagesJoined(hist, n) ==
  IF n = 0 THEN <<>> ELSE PagesJoined(hist, n - 1) \o Page(hist, n)

\* The entries of the Ledger that a step adds precede all the entries it
\* keeps, and the kept ones are the first of the old Ledger, in their order.
NewestFirst(old, new) ==
  LET oldIds == IdsOf(old)
      added == Len(SelectSeq(new, LAMBDA d : d.id \notin oldIds))
  IN  /\ \A j \in 1..added : new[j].id \notin oldIds
      /\ SubSeq(new, added + 1, Len(new)) = Take(old, Len(new) - added)

\* C29: an entry migrated later precedes every entry migrated earlier; page p
\* holds the entries at positions 5(p-1)+1 to 5p of the Ledger, and pages
\* 1..ceil(n/5) one after the other are the Ledger, each entry once.
C29_Step == NewestFirst(history, history')

C29_NewestFirstPaged ==
  /\ [](/\ PagesJoined(history, TotalPages(history)) = history
        /\ \A p \in 1..TotalPages(history) :
             LET page == Page(history, p)
             IN  /\ Len(page) \in 1..ITEMS_PER_PAGE
                 /\ \A k \in 1..Len(page) : page[k] = history[ITEMS_PER_PAGE * (p - 1) + k])
  /\ [][C29_Step]_vars

\* A migration has just put a task in front of a Ledger of twenty full pages.
C29_Witness ==
  /\ last.op = "effect"
  /\ Len(history) = HISTORY_LIMIT
  /\ history[1].id \in Ids
  /\ TotalPages(history) = 20
  /\ Page(history, 1)[1].id \in Ids
  /\ Page(history, 20)[ITEMS_PER_PAGE] = history[HISTORY_LIMIT]

\* The save path changed between scheduling and promotion: every task is
\* scheduled while the save path is the initial one; the folder is changed
\* afterwards.
Folders == {DEFAULT_SAVE_PATH, "/media"}

SettingsNext ==
  \/ \E t \in ScheduleTimes :
       /\ inputs.savePath = DEFAULT_SAVE_PATH
       /\ scheduleDownload(t)
  \/ \E selected \in Folders : selectFolder(selected)
  \/ \E okSet \in SUBSET Ids : SchedulerTick(okSet)
  \/ Render
  \/ Advance(TimeStep)

SettingsSpec == Init /\ [][SettingsNext]_vars

\* C28: the start_download call of a promotion carries the format and the
\* subtitle flag stored with the task and the save path that was current when
\* the task was scheduled, whatever the settings are at the promotion.
C28_PromotionUsesStored ==
  [][last'.op = "tick" =>
       \A k \in (Len(invoked) + 1)..Len(invoked') :
         /\ Has(downloads, invoked'[k].id)
         /\ invoked'[k].formatString = Item(downloads, invoked'[k].id).format
         /\ invoked'[k].subtitles = (Item(downloads, invoked'[k].id).subtitles = "on")
         /\ invoked'[k].downloadDir = DEFAULT_SAVE_PATH]_vars

\* The strings the classification is checked on, and those of them that are
\* playlist URLs: the path is /playlist and the query has a list parameter.
UrlInputs ==
  {"https://a/playlist?list=P", "https://a/playlist?v=1&list=P#t", "https://a/playlist?list",
   "https://a/watch?v=1&list=P", "https://a/playlist?v=1", "https://a/playlist",
   "https://a/playlist/?list=P", "https://a/playlist?mylist=P", "https://a/playlist#?list=P",
   "https://a/list/playlist?list=P", "https://a?list=P", "https://", "a/playlist?list=P",
   "/playlist?list=P", ""}

PlaylistUrls ==
  {"https://a/playlist?list=P", "https://a/playlist?v=1&list=P#t", "https://a/playlist?list"}

\* The URL form: a URL typed, classified and fetched, a quality chosen, then
\* submitted at once or scheduled; a list of URLs imported and scheduled.
Formats == {DEFAULT_FORMAT, "ba/b"}

\* The strings typed into the form: a playlist URL, a watch-style URL with a
\* list parameter, a playlist path without one, a string that is no URL.
FormUrls ==
  {"https://a/playlist?list=P", "https://a/watch?v=1&list=P", "https://a/playlist?v=1",
   "https://"}

FormNext ==
  \/ \E u \in FormUrls : setUrl(u)
  \/ fetchFormats
  \/ \E ok \in BOOLEAN, n \in 0..MaxTasks : FetchPlaylistSettled(ok, n)
  \/ \E f \in Formats, b \in BOOLEAN : selectFormat(f, b)
  \/ \E b \in BOOLEAN : setWithSubtitles(b)
  \/ \E ok \in BOOLEAN : nextId = 1 /\ addDownloadOfInputs(ok)
  \/ \E ok \in BOOLEAN : PlaylistResume(ok)
  \/ \E i \in Ids : StartRejected(i)
  \/ Render

FormSpec == Init /\ [][FormNext]_vars


\* Scheduling from the form: a video URL or a playlist URL with its metadata
\* fetched, or an imported list of URLs, scheduled for a time.
ScheduleFormUrls == {"https://a/playlist?list=P", "https://a/watch?v=1"}

ScheduleFormNext ==
  \/ \E u \in ScheduleFormUrls : setUrl(u)
  \/ fetchFormats
  \/ \E n \in 1..MaxTasks : FetchPlaylistSettled(TRUE, n)
  \/ \E f \in Formats : selectFormat(f, FALSE)
  \/ \E t \in ScheduleTimes : nextId = 1 /\ scheduleDownloadOfInputs(t)
  \/ handleFileImport("https://a/1\nhttp://b/2")
  \/ Render

ScheduleFormSpec == Init /\ [][ScheduleFormNext]_vars


\* C21: isPlaylistUrl is true exactly for the strings that parse as a URL with
\* path /playlist and a list parameter in the query; for any other string
\* fetchFormats takes the regular branch (no playlist, no metadata, no error),
\* and submitting the URL it fetched creates one pending task with that URL,
\* dispatched with that URL.
C21_FetchStep ==
  (last'.op = "fetch" /\ inputs.url \notin PlaylistUrls)
  => /\ ~inputs'.isPlaylist
     /\ ~inputs'.isFetchingPlaylist
     /\ inputs'.playlistInfo = NoPlaylist
     /\ inputs'.formatsError = ""
     /\ inputs'.lastFetchedUrl = inputs.url

C21_SubmitStep ==
  (/\ last'.op \in {"add", "playlist"}
   /\ inputs.url = inputs.lastFetchedUrl
   /\ inputs.url \notin PlaylistUrls)
  => /\ last'.op = "add"
     /\ nextId' = nextId + 1
     /\ Len(downloads') > 0
     /\ downloads'[1].id = nextId
     /\ downloads'[1].url = inputs.url
     /\ downloads'[1].status = "pending"
     /\ invoked' = Append(invoked, Invocation(nextId, inputs.url, inputs.savePath,
                                              inputs.selectedFormat, inputs.withSubtitles))

\* The classification of each of the strings.
Classified == [u \in UrlInputs |-> isPlaylistUrl(u)]

C22_Confirming ==
  /\ last'.op \in {"add", "playlist"}
  /\ inputs.isPlaylist
  /\ inputs.playlistInfo.loaded

\* The step creates one pending task per entry, in the order of the entries,
\* each with the entry's URL and title, in front of the Registry.
C22_OnePerEntry ==
  LET entries == inputs.playlistInfo.entries
  IN  /\ nextId' = nextId + Len(entries)
      /\ Len(downloads') = Len(downloads) + Len(entries)
      /\ \A k \in 1..Len(entries) :
           /\ downloads'[k].id = nextId + k - 1
           /\ downloads'[k].url = entries[k].url
           /\ downloads'[k].title = entries[k].title
           /\ downloads'[k].status = "pending"

\* Once the playlist loop has ended, start_download was invoked once for each
\* task, with the task's URL and the format, subtitle setting and save path
\* the loop was started with.
C22_AllDispatched ==
  ExpansionDone =>
    \A j \in 1..Len(expansion.made) :
      /\ Cardinality({n \in DOMAIN invoked : invoked[n].id = expansion.made[j]}) = 1
      /\ \E n \in DOMAIN invoked :
           invoked[n] = Invocation(expansion.made[j], expansion.all[j], expansion.dir,
                                   expansion.format, expansion.subtitles)

\* The loop is started with the format and the subtitle setting of the form.
C22_AsChosen ==
  last'.op = "playlist"
  => /\ expansion'.format = inputs.selectedFormat
     /\ expansion'.subtitles = inputs.withSubtitles
     /\ expansion'.all = [k \in 1..Len(inputs.playlistInfo.entries) |->
                            inputs.playlistInfo.entries[k].url]

\* C22 as stated: confirming a playlist whose metadata has k entries creates
\* exactly k tasks, one per entry, each with the entry's URL and title and
\* status pending, and each is dispatched with the format and subtitle setting
\* chosen.
C22_EveryEntryOneTask ==
  /\ []C22_AllDispatched
  /\ [][(C22_Confirming => C22_OnePerEntry) /\ C22_AsChosen]_vars

\* C22 amended: the same for a playlist with at least one entry.
C22_EveryEntryOneTaskNonEmpty ==
  /\ []C22_AllDispatched
  /\ [][((C22_Confirming /\ Len(inputs.playlistInfo.entries) > 0) => C22_OnePerEntry)
        /\ C22_AsChosen]_vars

\* A playlist of two entries confirmed with subtitles chosen, both dispatched.
C22_Witness ==
  /\ last.op = "playlistDone"
  /\ ExpansionDone
  /\ Len(expansion.made) = 2
  /\ Len(invoked) = 2
  /\ invoked[2].url = PlaylistVideos[2].url
  /\ invoked[2].subtitles
  /\ \E k \in DOMAIN downloads : downloads[k].title = PlaylistVideos[2].title


\* C24: when fetch_playlist_info fails, the Registry and the Ledger are as
\* before, nothing is dispatched, and an error message is set; while the
\* message stands for the playlist no quality can be chosen for it, so that
\* it cannot be submitted.
C24_FailedStep ==
  (last'.op = "fetched" /\ ~last'.ok)
  => /\ downloads' = downloads
     /\ history' = history
     /\ nextId' = nextId
     /\ invoked' = invoked
     /\ inputs'.formatsError # ""
     /\ inputs'.playlistInfo = NoPlaylist

C24_FetchFailureNoTask ==
  /\ []((inputs.isPlaylist /\ inputs.formatsError # "")
          => (~PlaylistPanelShown /\ ~VideoPanelShown /\ inputs.selectedFormat = ""))
  /\ [][C24_FailedStep]_vars

\* The fetch for a playlist URL has just failed.
C24_Witness ==
  /\ last.op = "fetched"
  /\ ~last.ok
  /\ inputs.url \in PlaylistUrls
  /\ inputs.isPlaylist
  /\ inputs.formatsError # ""
  /\ downloads = <<>>


\* The URLs of the tasks an immediate dispatch of the inputs would create: the
\* imported URLs, the entries of the playlist held, or the URL of the form.
SubmissionUrls ==
  IF isBatchMode THEN batchUrls
  ELSE IF inputs.isPlaylist /\ inputs.playlistInfo.loaded
          /\ Len(inputs.playlistInfo.entries) > 0
  THEN [k \in 1..Len(inputs.playlistInfo.entries) |-> inputs.playlistInfo.entries[k].url]
  ELSE <<inputs.url>>

\* C23: scheduling creates one task in status scheduled for each task an
\* immediate dispatch would create, with the same URLs: one for a single URL,
\* N for a batch of N URLs, k for a playlist of k entries.
C23_ScheduledAsDispatched ==
  [][last'.op = "schedule" =>
       LET n == Len(SubmissionUrls)
       IN  /\ nextId' = nextId + n
           /\ Len(downloads') = Len(downloads) + n
           /\ \A k \in 1..n : downloads'[k].status = "scheduled"
           /\ {downloads'[k].url : k \in 1..n} = {SubmissionUrls[k] : k \in 1..n}]_vars


\* No line of the logs is empty or equal to the line before it.
CleanLogs(logs) ==
  \A j \in 1..Len(logs) : logs[j] # "" /\ (j > 1 => logs[j] # logs[j - 1])

\* C31: no task's logs, in the Registry or in the Ledger, hold an empty line
\* or two equal adjacent lines; a download-log event whose trimmed message is
\* empty or equals the last stored line leaves the logs as they are, and any
\* other message becomes the last line, after the lines stored before.
C31_Step ==
  (last'.op = "log" /\ Has(downloads, last'.id))
  => LET message == Trim(last'.s)
         old == Item(downloads, last'.id).logs
         new == Item(downloads', last'.id).logs
     IN  IF message = "" \/ (Len(old) > 0 /\ old[Len(old)] = message)
         THEN new = old
         ELSE /\ Len(new) > 0
              /\ new[Len(new)] = message
              /\ SubSeq(new, 1, Len(new) - 1) = LastLines(old, Len(new) - 1)

C31_LogsClean ==
  /\ [](/\ \A k \in DOMAIN downloads : CleanLogs(downloads[k].logs)
        /\ \A k \in DOMAIN history : CleanLogs(history[k].logs))
  /\ [][C31_Step]_vars

\* A blank message has just been dropped for a task whose logs are full.
C31_Witness ==
  /\ last.op = "log"
  /\ Trim(last.s) = ""
  /\ Has(downloads, 1)
  /\ Len(Item(downloads, 1).logs) = MAX_LOG_LINES_PER_DOWNLOAD
  /\ Len(accepted[1]) > MAX_LOG_LINES_PER_DOWNLOAD


\* Task i is scheduled for a time that has not come.
NotYetDue(i) ==
  /\ Has(downloads, i)
  /\ Item(downloads, i).status = "scheduled"
  /\ now < Item(downloads, i).scheduledFor

\* C32: while a task is scheduled for a time after now, no step issues a
\* start_download call for it, and a scheduler tick leaves it as it is, in
\* status scheduled.
C32_NeverEarly ==
  [][\A i \in Ids :
       NotYetDue(i)
       => /\ started'[i] = started[i]
          /\ \A k \in (Len(invoked) + 1)..Len(invoked') : invoked'[k].id # i
          /\ last'.op = "tick"
               => (Has(downloads', i) /\ Item(downloads', i) = Item(downloads, i))]_vars

\* A tick has just promoted and dispatched one task and left alone another,
\* which is scheduled for a later time.
C32_Witness ==
  /\ last.op = "tick"
  /\ \E i, j \in Ids :
       /\ NotYetDue(i)
       /\ started[i] = 0
       /\ started[j] = 1
       /\ Has(downloads, j)
       /\ Item(downloads, j).status = "pending"
       /\ Item(downloads, j).scheduledFor = now


\* C33: every Ledger entry has a terminal status, a completedAt timestamp and
\* a destination directory; an entry the migration adds has the completedAt
\* the task had, or the current time if it had none, and the current save path.
C33_Step ==
  last'.op = "effect" =>
    \A i \in IdsOf(history') \ IdsOf(history) :
      /\ Has(snap, i)
      /\ Item(history', i).completedAt
           = (IF Item(snap, i).completedAt # NoTime THEN Item(snap, i).completedAt ELSE now)
      /\ Item(history', i).downloadPath = inputs.savePath
      /\ Item(history', i).status = Item(snap, i).status

C34_CompletedIsFull ==
  /\ \A k \in DOMAIN downloads :
       downloads[k].status = "completed" => downloads[k].progress = FULL_PROGRESS
  /\ \A k \in DOMAIN history :
       history[k].status = "completed" => history[k].progress = FULL_PROGRESS

\* The completed event has just arrived for a task whose progress was 50.
C34_Witness ==
  /\ last.op = "status"
  /\ last.s = "completed"
  /\ Has(downloads, 1)
  /\ Item(downloads, 1).status = "completed"
  /\ Item(downloads, 1).progress = FULL_PROGRESS
  /\ Item(downloads, 1).speed = "1 MB/s"
  /\ appliedAt[1] # NoTime


\* Ticks of the scheduler while another task is downloading: one URL
\* submitted and reporting progress, one scheduled, the clock, cancellation.
TickNext ==
  \/ nextId = 1 /\ addDownload(TRUE)
  \/ \E p \in LifecyclePayloads : DownloadProgress(p)
  \/ \E t \in ScheduleTimes : nextId = 2 /\ scheduleDownload(t)
  \/ \E okSet \in SUBSET Ids : SchedulerTick(okSet)
  \/ \E i \in Ids, ok \in BOOLEAN : cancelDownload(i, ok)
  \/ \E i \in Ids : DownloadStatus(i, "cancelled", TRUE)
  \/ Render
  \/ MigrationEffect
  \/ Advance(TimeStep)

TickSpec == Init /\ [][TickNext]_vars

\* C35: a scheduler tick leaves the Ledger and every task that is not
\* scheduled and due as they are, a downloading task in particular, and
\* changes nothing but the status of a task that is scheduled and due.
C35_TickFrame ==
  [][last'.op = "tick" =>
       /\ history' = history
       /\ Len(downloads') = Len(downloads)
       /\ \A k \in DOMAIN downloads :
            IF IsDue(downloads[k], now)
            THEN downloads'[k] = [downloads[k] EXCEPT !.status = "pending"]
            ELSE downloads'[k] = downloads[k]]_vars

\* A tick has just promoted a scheduled task while another task, reporting
\* 50%, stays downloading.
C35_Witness ==
  /\ last.op = "tick"
  /\ Has(downloads, 1)
  /\ Item(downloads, 1).status = "downloading"
  /\ Item(downloads, 1).progress = 5000
  /\ Has(downloads, 2)
  /\ Item(downloads, 2).status = "pending"
  /\ started[2] = 1


\* Events of a worker whose task has left the Registry: two URLs submitted,
\* the worker of the first going on emitting after its status event,
\* migration, and a failed cancellation.
OrphanNext ==
  \/ nextId <= 2 /\ addDownload(TRUE)
  \/ DownloadProgress(ProgressPayload(1, 5000, "1 MB/s", "video"))
  \/ DownloadLog(1, "a")
  \/ DownloadTitle(1, "Title")
  \/ DownloadStatus(1, "completed", FALSE)
  \/ cancelDownload(1, FALSE)
  \/ Render
  \/ MigrationEffect

OrphanSpec == Init /\ [][OrphanNext]_vars

\* C36: a progress, log, title or status event whose id is the id of no task
\* in the Registry leaves the Registry and the Ledger as they are.
C36_UnknownIdIgnored ==
  [][(last'.op \in {"progress", "log", "title", "status"} /\ ~Has(downloads, last'.id))
     => (downloads' = downloads /\ history' = history)]_vars

\* A title event has just arrived for a task that is in the Ledger and no
\* longer in the Registry, where another task is.
C36_Witness ==
  /\ last.op = "title"
  /\ ~Has(downloads, last.id)
  /\ Has(history, last.id)
  /\ Len(downloads) > 0


\* C37: a single-URL submission puts one new task in front of the Registry
\* and leaves the tasks of the Registry as they are, with every update
\* applied to them since the last render. Stated for a submission that
\* follows a status event of a task of the Registry, the only update that is
\* not rendered yet.
C37_SubmitKeepsUpdates ==
  [][(/\ last'.op = "add"
      /\ last.op = "status"
      /\ Has(downloads, last.id)
      /\ queued = 1) =>
       /\ Len(downloads') = Len(downloads) + 1
       /\ downloads'[1].id = nextId
       /\ Tail(downloads') = downloads]_vars


\* C38: once a scheduled task has been removed from the Registry by the user
\* before it was due, no start_download call is issued for its id.
C38_RemovedNeverDispatched ==
  [][\A i \in unscheduled :
       /\ started'[i] = started[i]
       /\ \A k \in (Len(invoked) + 1)..Len(invoked') : invoked'[k].id # i]_vars


\* The time of both schedules has passed and a tick has just run; a task
\* removed before it was due has not been dispatched.
C38_Witness ==
  /\ last.op = "tick"
  /\ now >= StartTime + 2 * TimeStep
  /\ unscheduled # {}
  /\ \A i \in unscheduled : started[i] = 0 /\ ~Has(downloads, i)
  /\ \E j \in Ids : started[j] > 0


\* C39: after fetch_playlist_info has failed for the playlist URL of the form,
\* the fetch is not issued again for that URL while the URL is unchanged: no
\* step that follows the failure starts a fetch of the same URL.
C39_NoRefetchAfterFailure ==
  [][~(/\ last.op = "fetched"
       /\ ~last.ok
       /\ last.s = inputs.url
       /\ isPlaylistUrl(inputs.url)
       /\ last'.op = "fetch"
       /\ last'.s = inputs.url
       /\ inputs'.url = inputs.url
       /\ inputs'.isFetchingPlaylist)]_vars

====
